---- MODULE Spec2Model ----
(***************************************************************************)
(* Model of the per-user emotional state store of sentra-emo               *)
(* (app/user_store.py: UserStore) and of the /analyze handler that feeds   *)
(* it (app/main.py: analyze).                                              *)
(*                                                                         *)
(* Real-valued quantities are fixed-point integers:                        *)
(*   - scores (valence, arousal, dominance, stress, emotion scores) are    *)
(*     counted in units of 1/Scale, so 0.5 is 500000 and 1e-6 is 1;        *)
(*   - smoothing coefficients (alpha) are counted in units of 1/AlphaScale,*)
(*     so 0.99 is 990 and 1.0 is 1000;                                     *)
(*   - time is counted in whole clock ticks; half-lives are in ticks.      *)
(* A product alpha * delta is truncated towards zero, so a smoothed value  *)
(* reaches the observed value only when alpha is exactly 1 or the two are  *)
(* already equal, as with the doubles of the program.                      *)
(***************************************************************************)
EXTENDS Integers, Sequences, FiniteSets, TLC

\* ------------------------------------------------------------------ bounds
MaxCalls == 2          \* calls started in one behaviour of concurrent workers
MaxSeqCalls == 3       \* calls started in one behaviour of one-at-a-time calls
MaxClock == 2          \* last reading of the wall clock (first reading is 1)

\* --------------------------------------------------------- numeric carrier
Scale == 1000000       \* one score unit is 1e-6
AlphaScale == 1000     \* one alpha unit is 1e-3

Threads == {1, 2}
Entities == {"e1", "e2"}
NoThread == 0

\* Python's `x or d` on a number: a zero (or NULL) column reads as d.
OrDefault(x, d) == IF x = 0 THEN d ELSE x

Abs(x) == IF x < 0 THEN -x ELSE x

Max(a, b) == IF a >= b THEN a ELSE b

RECURSIVE IPow(_, _)
IPow(b, n) == IF n = 0 THEN 1 ELSE b * IPow(b, n - 1)

\* floor(AlphaScale * 2^(-dt/half)) for half > 0: the largest r with
\* r^half * 2^dt <= AlphaScale^half, found by bisection on lo..hi.
RECURSIVE Pow2NegSearch(_, _, _, _)
Pow2NegSearch(lo, hi, dt, half) ==
    IF lo >= hi THEN lo
    ELSE LET mid == (lo + hi + 1) \div 2
         IN  IF IPow(mid, half) * IPow(2, dt) <= IPow(AlphaScale, half)
             THEN Pow2NegSearch(mid, hi, dt, half)
             ELSE Pow2NegSearch(lo, mid - 1, dt, half)

Pow2Neg(dt, half) == Pow2NegSearch(0, AlphaScale, dt, half)

\* UserStore._alpha: 1 - 2^(-dt/half); a non-positive half-life gives 1.
AlphaHalf(dt_sec, half_life_sec) ==
    IF half_life_sec <= 0 THEN AlphaScale \div 2
    ELSE AlphaScale - Pow2Neg(dt_sec, half_life_sec)

Alpha(dt_sec, half_life_sec) ==
    IF half_life_sec <= 0 THEN AlphaScale
    ELSE AlphaScale - Pow2Neg(dt_sec, half_life_sec)

\* alpha * delta, truncated towards zero (delta in score units).
MulAlpha(a, delta) ==
    IF delta >= 0 THEN (a * delta) \div AlphaScale
    ELSE -((a * (-delta)) \div AlphaScale)

\* update_user._adapt: a_base * (1 + gain * |cur - old_fast|), clamped to
\* [0, 0.99].  The gain is the rational gain_num / gain_den.
AdaptUnclamped(a_base, cur_value, old_fast_value, gain_num, gain_den) ==
    LET surprise == Abs(cur_value - old_fast_value)
    IN  IF gain_num >= 0
        THEN a_base + (a_base * gain_num * surprise) \div (gain_den * Scale)
        ELSE a_base - (a_base * (-gain_num) * surprise) \div (gain_den * Scale)

Adapt(a_base, cur_value, old_fast_value, gain_num, gain_den) ==
    LET surprise == Abs(cur_value - old_fast_value)
        boost == IF gain_num >= 0
                 THEN (a_base * gain_num * surprise) \div (gain_den * Scale)
                 ELSE -((a_base * (-gain_num) * surprise) \div (gain_den * Scale))
        eff == a_base + boost
    IN  IF eff > 990 THEN 990 ELSE IF eff < 0 THEN 0 ELSE eff

\* old + alpha * (observed - old)
EmaStepNoOld(old, a, observed) == old + MulAlpha(a, observed)

EmaStep(old, a, observed) == old + MulAlpha(a, observed - old)

\* ------------------------------------------------------------ observations
\* What one /analyze request carries into update_user: the classifier's
\* output for the text (sentiment label, VAD, stress, ranked emotions).
ObsJoy ==
    [username |-> "ann", text |-> "t1", sentiment |-> "positive",
     valence |-> 900000, arousal |-> 800000, dominance |-> 600000,
     stress |-> 200000, level |-> "low",
     emotions |-> << [label |-> "joy", score |-> 900000],
                     [label |-> "trust", score |-> 300000] >>]

ObsSad ==
    [username |-> "ann", text |-> "t2", sentiment |-> "negative",
     valence |-> 100000, arousal |-> 400000, dominance |-> 500000,
     stress |-> 800000, level |-> "high",
     emotions |-> << [label |-> "sadness", score |-> 700000],
                     [label |-> "joy", score |-> 700000] >>]

Observations == {ObsJoy, ObsSad}

\* Configuration read on every call (half-lives in ticks, gain as a
\* rational, top-N of the emotion lists).
Configs ==
    { [fast_half |-> 1, slow_half |-> 2, gain_num |-> 1, gain_den |-> 2, top_n |-> 2] }

\* ------------------------------------------------------- emotion tracks
Eps == 1               \* 1e-6: scores at or below it are dropped

Min(a, b) == IF a <= b THEN a ELSE b

\* A Python dict built from a list of {label, score} records (a later entry
\* with the same label wins), as a function from its labels to scores.
DictOf(list) ==
    [l \in {list[i].label : i \in DOMAIN list} |->
        list[CHOOSE i \in DOMAIN list :
                /\ list[i].label = l
                /\ \A j \in DOMAIN list : list[j].label = l => j <= i].score]

\* dict.get(k, dflt)
Get(d, k, dflt) == IF k \in DOMAIN d THEN d[k] ELSE dflt

\* The orders in which iterating a set of labels can yield them.
Orders(S) ==
    {s \in [1..Cardinality(S) -> S] :
        \A i, j \in 1..Cardinality(S) : i # j => s[i] # s[j]}

\* sorted(d.items(), key=score, reverse=True) is stable: labels with equal
\* scores keep the order in which the dict holds them (base).
RECURSIVE InsertDesc(_, _, _)
InsertDesc(s, lab, d) ==
    IF Len(s) = 0 THEN << lab >>
    ELSE IF d[Head(s)] >= d[lab] THEN << Head(s) >> \o InsertDesc(Tail(s), lab, d)
    ELSE << lab >> \o s

RECURSIVE SortedDesc(_, _)
SortedDesc(base, d) ==
    IF Len(base) = 0 THEN << >>
    ELSE InsertDesc(SortedDesc(SubSeq(base, 1, Len(base) - 1), d),
                    base[Len(base)], d)

Take(s, n) == SubSeq(s, 1, Min(n, Len(s)))

\* Python's s[:n]: a negative n drops the last -n elements.
PySlice(s, n) == IF n >= 0 THEN Take(s, n) ELSE SubSeq(s, 1, Max(0, Len(s) + n))

RECURSIVE KeepAboveEps(_, _)
KeepAboveEps(labs, d) ==
    IF Len(labs) = 0 THEN << >>
    ELSE (IF d[Head(labs)] > Eps
          THEN << [label |-> Head(labs), score |-> d[Head(labs)]] >>
          ELSE << >>) \o KeepAboveEps(Tail(labs), d)

\* sorted(...)[: max(1, top_n)] followed by the `v > 1e-6` filter.
TopItemsUnfiltered(base, d, top_n) ==
    [i \in DOMAIN base |-> [label |-> SortedDesc(base, d)[i],
                            score |-> d[SortedDesc(base, d)[i]]]]

TopItems(base, d, top_n) == KeepAboveEps(Take(SortedDesc(base, d), Max(1, top_n)), d)

\* ------------------------------------------------------------ JSON columns
\* The text of a JSON column, by what json.loads makes of it: "list" is a
\* list of {label, score} records (what update_user writes), "invalid" is
\* text that does not parse, "object" is a JSON object and "number" a JSON
\* number.
JsonList(items) == [kind |-> "list", items |-> items]

\* json.dumps(emos_list)
JsonDumps(items) == JsonList(items)

MalformedKinds == {"invalid", "object", "number"}

Malformed(kind) == [kind |-> kind, items |-> << >>]

\* What update_user keeps of a stored list: a parse error gives [], and
\* iterating an object yields its keys, which are no records.
ItemsOf(col) == IF col.kind = "list" THEN col.items ELSE << >>

\* Iterating the parsed value raises TypeError when it is a number (the
\* comprehensions of update_user are outside the try blocks).
NotIterable(col) == col.kind = "number"

\* NULL in a JSON column.
JsonNull == [kind |-> "null", items |-> << >>]

\* ------------------------------------------------------ one smoothing step
\* The `cur` dict of update_user: what the call keeps of the row it read.
\* It has no key "stress_slow": the column is selected but never copied.
CurOf(p, nw) ==
    [count |-> OrDefault(p.count, 0),
     valence |-> OrDefault(p.vad_valence, 500000),
     arousal |-> OrDefault(p.vad_arousal, 500000),
     dominance |-> OrDefault(p.vad_dominance, 500000),
     baseline_valence |-> OrDefault(p.baseline_valence, 500000),
     baseline_arousal |-> OrDefault(p.baseline_arousal, 500000),
     baseline_dominance |-> OrDefault(p.baseline_dominance, 500000),
     stress |-> OrDefault(p.stress, 300000),
     emotions |-> ItemsOf(p.top_emotions),
     updated_ts |-> OrDefault(p.updated_ts, nw)]

\* `cur` when no row was read: every later lookup takes its default, and
\* the last update time defaults to now.
CurDefault(nw) ==
    [count |-> 0,
     valence |-> 500000, arousal |-> 500000, dominance |-> 500000,
     baseline_valence |-> 500000, baseline_arousal |-> 500000,
     baseline_dominance |-> 500000,
     stress |-> 300000,
     emotions |-> << >>,
     updated_ts |-> nw]

Cur(pv, nw) == IF Len(pv) = 0 THEN CurDefault(nw) ELSE CurOf(pv[1], nw)

\* dt = max(0, now - last_time)
Dt(pv, nw) == Max(0, nw - Cur(pv, nw).updated_ts)

\* old_s_slow: cur.get("stress_slow") is never a number, so the previous
\* slow stress is taken to be the previous fast stress.
OldStressSlow(pv, old_s_fast) == old_s_fast

\* out_count = cur.count + 1
OutCountSame(c) == c

OutCount(c) == c + 1

\* Trends (fast - slow)
TrendReversed(fast, slow) == slow - fast

Trend(fast, slow) == fast - slow

\* The fast list read back: prev[11] when present and non-empty.
OldEmosFast(pv) == IF Len(pv) = 0 THEN << >> ELSE ItemsOf(pv[1].top_emotions_fast)

\* The row update_user persists for entity e, from the row it read (pv),
\* the observation o, its clock reading nw and the configuration c; base is
\* the order in which the label set is iterated.
NewRow(pv, e, o, nw, c, base) ==
    LET cur == Cur(pv, nw)
        dt == Dt(pv, nw)
        a_fast_base == Alpha(dt, c.fast_half)
        a_slow == Alpha(dt, c.slow_half)
        adapt(cv, ov) == Adapt(a_fast_base, cv, ov, c.gain_num, c.gain_den)
        new_v == EmaStep(cur.valence, adapt(o.valence, cur.valence), o.valence)
        new_a == EmaStep(cur.arousal, adapt(o.arousal, cur.arousal), o.arousal)
        new_d == EmaStep(cur.dominance, adapt(o.dominance, cur.dominance), o.dominance)
        base_v == EmaStep(cur.baseline_valence, a_slow, o.valence)
        base_a == EmaStep(cur.baseline_arousal, a_slow, o.arousal)
        base_d == EmaStep(cur.baseline_dominance, a_slow, o.dominance)
        old_s_fast == cur.stress
        old_s_slow == OldStressSlow(pv, old_s_fast)
        new_s_fast == EmaStep(old_s_fast, adapt(o.stress, old_s_fast), o.stress)
        new_s_slow == EmaStep(old_s_slow, a_slow, o.stress)
        cur_scores == DictOf(o.emotions)
        old_emos == DictOf(cur.emotions)
        old_emos_fast == DictOf(OldEmosFast(pv))
        pv_slow(lab) == Get(old_emos, lab, 0)
        pv_fast(lab) == Get(old_emos_fast, lab, pv_slow(lab))
        curv(lab) == Get(cur_scores, lab, 0)
        labs == {base[i] : i \in DOMAIN base}
        upd_slow == [lab \in labs |-> EmaStep(pv_slow(lab), a_slow, curv(lab))]
        upd_fast == [lab \in labs |->
                        EmaStep(pv_fast(lab), adapt(curv(lab), pv_fast(lab)), curv(lab))]
    IN  [userid |-> e,
         username |-> o.username,
         count |-> OutCount(cur.count),
         vad_valence |-> new_v, vad_arousal |-> new_a, vad_dominance |-> new_d,
         baseline_valence |-> base_v, baseline_arousal |-> base_a,
         baseline_dominance |-> base_d,
         stress |-> new_s_fast, stress_level |-> o.level,
         top_emotions |-> JsonDumps(TopItems(base, upd_slow, c.top_n)),
         top_emotions_fast |-> JsonDumps(TopItems(base, upd_fast, c.top_n)),
         updated_at |-> nw, updated_ts |-> nw,
         stress_slow |-> new_s_slow,
         trend_valence |-> Trend(new_v, base_v),
         trend_arousal |-> Trend(new_a, base_a),
         trend_dominance |-> Trend(new_d, base_d),
         stress_trend |-> Trend(new_s_fast, new_s_slow)]

\* all_labels: labels of the stored slow list, the stored fast list and the
\* observation.
AllLabels(pv, o, nw) ==
    DOMAIN DictOf(Cur(pv, nw).emotions) \cup DOMAIN DictOf(OldEmosFast(pv))
        \cup DOMAIN DictOf(o.emotions)

\* ------------------------------------------------------------------ tables
\* SELECT ... FROM user_state WHERE userid = ? ; fetchone(): the first
\* matching row in table order, or nothing.
Matching(tbl, e) == {i \in DOMAIN tbl : tbl[i].userid = e}

FetchOne(tbl, e) ==
    IF Matching(tbl, e) = {} THEN << >>
    ELSE << tbl[CHOOSE i \in Matching(tbl, e) : \A j \in Matching(tbl, e) : i <= j] >>

\* UPDATE user_state SET ... with no WHERE clause.
UpdateRowsAll(tbl, e, row) == [i \in DOMAIN tbl |-> row]

\* UPDATE user_state SET ... WHERE userid = ? (every matching row).
UpdateRows(tbl, e, row) ==
    [i \in DOMAIN tbl |-> IF tbl[i].userid = e THEN row ELSE tbl[i]]

\* INSERT INTO user_state ...
InsertRow(tbl, row) == Append(tbl, row)

\* update_user builds old_emos and old_emos_fast by iterating the parsed
\* columns outside any try block: a stored JSON number raises TypeError.
UpdateRaises(pv) ==
    /\ Len(pv) > 0
    /\ \/ NotIterable(pv[1].top_emotions)
       \/ NotIterable(pv[1].top_emotions_fast)

\* load_user iterates `parsed or []` inside its outer try, whose handler
\* returns None.
LoadRaises(row) == NotIterable(row.top_emotions)

\* The UserState load_user builds from the row it selected.
LoadedState(row) ==
    [userid |-> row.userid, username |-> row.username,
     count |-> OrDefault(row.count, 0),
     vad |-> [valence |-> OrDefault(row.vad_valence, 500000),
              arousal |-> OrDefault(row.vad_arousal, 500000),
              dominance |-> OrDefault(row.vad_dominance, 500000),
              method |-> "ema"],
     emotions |-> ItemsOf(row.top_emotions),
     stress |-> [score |-> OrDefault(row.stress, 300000),
                 level |-> row.stress_level],
     updated_at |-> row.updated_at]

\* load_user(userid): None (here << >>) when there is no row or when
\* building the state raised.
LoadUser(tbl, e) ==
    IF Len(FetchOne(tbl, e)) = 0 THEN << >>
    ELSE IF LoadRaises(FetchOne(tbl, e)[1]) THEN << >>
    ELSE << LoadedState(FetchOne(tbl, e)[1]) >>

\* list_events: WHERE userid = ? [AND ts >= start] [AND ts <= end].
ListMatching(evs, e, start, end) ==
    {i \in DOMAIN evs : /\ evs[i].userid = e
                        /\ Len(start) = 0 \/ evs[i].ts >= start[1]
                        /\ Len(end) = 0 \/ evs[i].ts <= end[1]}

\* ORDER BY ts DESC: any order of the matching events with descending ts.
ListOrders(evs, S) ==
    {s \in Orders(S) :
        \A i, j \in DOMAIN s : i < j => evs[s[i]].ts >= evs[s[j]].ts}

\* list(reversed(out))
Reversed(s) == [i \in 1..Len(s) |-> s[Len(s) + 1 - i]]

\* One listed event: the ten selected columns, top_emotions parsed.
ListedRow(ev) ==
    [ts |-> ev.ts, userid |-> ev.userid, username |-> ev.username,
     text |-> ev.text, sentiment |-> ev.sentiment, valence |-> ev.valence,
     arousal |-> ev.arousal, dominance |-> ev.dominance, stress |-> ev.stress,
     top_emotions |-> ItemsOf(ev.top_emotions)]

\* list_events(userid, limit, start, end): the first `limit` rows of the
\* descending order, returned oldest first.
ListEventsNewestFirst(evs, order, limit) ==
    [i \in 1..Min(limit, Len(order)) |-> ListedRow(evs[order[i]])]

ListEvents(evs, order, limit) ==
    Reversed([i \in 1..Min(limit, Len(order)) |-> ListedRow(evs[order[i]])])

\* The upsert of update_user: UPDATE when a row was read, INSERT otherwise.
Upsert(tbl, pv, e, row) ==
    IF Len(pv) > 0 THEN UpdateRows(tbl, e, row) ELSE InsertRow(tbl, row)

\* The UserState update_user returns.
ReturnedState(row) ==
    [userid |-> row.userid, username |-> row.username, count |-> row.count,
     vad |-> [valence |-> row.vad_valence, arousal |-> row.vad_arousal,
              dominance |-> row.vad_dominance, method |-> "ema"],
     emotions |-> row.top_emotions.items,
     stress |-> [score |-> row.stress, level |-> row.stress_level],
     updated_at |-> row.updated_at]

\* json.dumps of [[label, score], ...]
Pairs(list) == [i \in DOMAIN list |-> << list[i].label, list[i].score >>]

\* The event row append_event inserts, given the VAD and stress results the
\* caller hands it.
EventRowAnon(ts, e, o, vad, stress, top_n) ==
    [ts |-> ts, userid |-> "", username |-> o.username, text |-> o.text,
     sentiment |-> o.sentiment,
     valence |-> vad.valence, arousal |-> vad.arousal,
     dominance |-> vad.dominance,
     stress |-> stress.score,
     top_emotions |-> JsonDumps(Pairs(PySlice(o.emotions, top_n))),
     emotions |-> JsonDumps(Pairs(o.emotions))]

EventRow(ts, e, o, vad, stress, top_n) ==
    [ts |-> ts, userid |-> e, username |-> o.username, text |-> o.text,
     sentiment |-> o.sentiment,
     valence |-> vad.valence, arousal |-> vad.arousal,
     dominance |-> vad.dominance,
     stress |-> stress.score,
     top_emotions |-> JsonDumps(Pairs(PySlice(o.emotions, top_n))),
     emotions |-> JsonDumps(Pairs(o.emotions))]

\* --------------------------------------------------------------- analytics
\* Confidences are in units of 1/ConfScale; the statistics are in score
\* units, the standard deviations being computed on values cut to 1e-3.
ConfScale == 1000
Milli == 1000

RECURSIVE SumSeq(_)
SumSeq(s) == IF Len(s) = 0 THEN 0 ELSE Head(s) + SumSeq(Tail(s))

\* floor(sqrt(v)), by bisection on lo..hi.
RECURSIVE IsqrtSearch(_, _, _)
IsqrtSearch(lo, hi, v) ==
    IF lo >= hi THEN lo
    ELSE LET mid == (lo + hi + 1) \div 2
         IN  IF mid * mid <= v THEN IsqrtSearch(mid, hi, v)
             ELSE IsqrtSearch(lo, mid - 1, v)

Isqrt(v) == IsqrtSearch(0, Milli, v)

\* get_analytics._std: 0 for n <= 1, else sqrt(sum((x - m)^2) / (n - 1))
\* with m = sum / n.  With q the values in 1e-3 units and S their sum,
\* sum((q - S/n)^2) = sum((n*q - S)^2) / n^2.
StdPopulation(arr) ==
    LET n == Len(arr)
        q == [i \in DOMAIN arr |-> arr[i] \div Milli]
        S == SumSeq(q)
        D == SumSeq([i \in DOMAIN arr |-> (n * q[i] - S) * (n * q[i] - S)])
    IN  IF n <= 1 THEN 0 ELSE Isqrt(D \div (n * n * n)) * Milli

Std(arr) ==
    LET n == Len(arr)
        q == [i \in DOMAIN arr |-> arr[i] \div Milli]
        S == SumSeq(q)
        D == SumSeq([i \in DOMAIN arr |-> (n * q[i] - S) * (n * q[i] - S)])
    IN  IF n <= 1 THEN 0 ELSE Isqrt(D \div (n * n * (n - 1))) * Milli

\* _heuristic_mbti._bin: the letter and confidence of one axis.
BinProportional(value, low, high, lo_letter, hi_letter) ==
    IF value <= low THEN [letter |-> lo_letter, score |-> ConfScale]
    ELSE IF value >= high THEN [letter |-> hi_letter, score |-> ConfScale]
    ELSE LET span == Max(1, high - low)
         IN  IF 2 * (value - low) < span
             THEN [letter |-> lo_letter,
                   score |-> ((span - (value - low)) * ConfScale) \div span]
             ELSE [letter |-> hi_letter,
                   score |-> ((value - low) * ConfScale) \div span]

Bin(value, low, high, lo_letter, hi_letter) ==
    IF value <= low THEN [letter |-> lo_letter, score |-> ConfScale]
    ELSE IF value >= high THEN [letter |-> hi_letter, score |-> ConfScale]
    ELSE LET span == Max(1, high - low)
         IN  IF 2 * (value - low) < span
             THEN [letter |-> lo_letter,
                   score |-> Max(0, Min(ConfScale,
                       ((span - 2 * (value - low)) * ConfScale) \div span))]
             ELSE [letter |-> hi_letter,
                   score |-> Max(0, Min(ConfScale,
                       ((2 * (value - low) - span) * ConfScale) \div span))]

Dimension(axis, metric, value, low, high, lo_letter, hi_letter) ==
    [axis |-> axis, letter |-> Bin(value, low, high, lo_letter, hi_letter).letter,
     score |-> Bin(value, low, high, lo_letter, hi_letter).score,
     metric |-> metric, value |-> value, low |-> low, high |-> high]

\* _heuristic_mbti: four axes in the order IE, SN, TF, JP; the type is
\* the four letters, the confidence the mean of the four scores.
HeuristicMbtiReordered(avg_a, v_std, pos_ratio, a_std, dominant_emotion, c) ==
    LET dims == << Dimension("IE", "avg_arousal", avg_a, c.ie_low, c.ie_high, "I", "E"),
                   Dimension("SN", "v_std", v_std, c.sn_low, c.sn_high, "S", "N"),
                   Dimension("TF", "pos_ratio", pos_ratio, c.tf_low, c.tf_high, "T", "F"),
                   Dimension("JP", "a_std", a_std, c.jp_low, c.jp_high, "J", "P") >>
    IN  [type |-> << dims[1].letter, dims[3].letter, dims[2].letter, dims[4].letter >>,
         dimensions |-> dims,
         method |-> "heuristic",
         confidence |-> (dims[1].score + dims[2].score + dims[3].score + dims[4].score)
                            \div 4,
         dominant_emotion |-> dominant_emotion]

HeuristicMbti(avg_a, v_std, pos_ratio, a_std, dominant_emotion, c) ==
    LET dims == << Dimension("IE", "avg_arousal", avg_a, c.ie_low, c.ie_high, "I", "E"),
                   Dimension("SN", "v_std", v_std, c.sn_low, c.sn_high, "S", "N"),
                   Dimension("TF", "pos_ratio", pos_ratio, c.tf_low, c.tf_high, "T", "F"),
                   Dimension("JP", "a_std", a_std, c.jp_low, c.jp_high, "J", "P") >>
    IN  [type |-> << dims[1].letter, dims[2].letter, dims[3].letter, dims[4].letter >>,
         dimensions |-> dims,
         method |-> "heuristic",
         confidence |-> (dims[1].score + dims[2].score + dims[3].score + dims[4].score)
                            \div 4,
         dominant_emotion |-> dominant_emotion]

\* The window of a query: explicit start / end (each << >> for None), or
\* the last `days` days (0 standing for a missing value, which reads as 30).
RangeWindow(start, end) == [kind |-> "range", start |-> start, end |-> end]

DaysWindow(days) == [kind |-> "days", days |-> IF days = 0 THEN 30 ELSE days]

InWindow(ev, w, nw) ==
    IF w.kind = "range"
    THEN /\ Len(w.start) = 0 \/ ev.ts >= w.start[1]
         /\ Len(w.end) = 0 \/ ev.ts <= w.end[1]
    ELSE ev.ts >= nw - w.days

\* The events the WHERE clause of both queries selects.
WindowEvents(evs, e, w, nw) ==
    {i \in DOMAIN evs : evs[i].userid = e /\ InWindow(evs[i], w, nw)}

\* ORDER BY ts: any order of the selected events with ascending ts.
ScanOrders(evs, S) ==
    {s \in Orders(S) :
        \A i, j \in DOMAIN s : i < j => evs[s[i]].ts <= evs[s[j]].ts}

\* LIMIT get_analytics_max_events() on the row query.
ScanLimit(order, max_events) == Take(order, Max(0, max_events))

\* The stats query aggregates every selected event.
StatsScan(order, max_events) == order

Column(evs, order, col) == [i \in DOMAIN order |-> evs[order[i]][col]]

\* AVG(col), or the default when the aggregate is NULL.
Avg(vals, dflt) == IF Len(vals) = 0 THEN dflt ELSE SumSeq(vals) \div Len(vals)

\* The emotion list of a scanned row: the emotions column, or top_emotions
\* when that is NULL.
EmoItems(ev) ==
    ItemsOf(IF ev.emotions # JsonNull THEN ev.emotions ELSE ev.top_emotions)

RECURSIVE ScannedItems(_, _)
ScannedItems(evs, rows) ==
    IF Len(rows) = 0 THEN << >>
    ELSE EmoItems(evs[Head(rows)]) \o ScannedItems(evs, Tail(rows))

\* The keys of label_sum in insertion order.
RECURSIVE LabelOrder(_)
LabelOrder(items) ==
    IF Len(items) = 0 THEN << >>
    ELSE LET before == LabelOrder(SubSeq(items, 1, Len(items) - 1))
             lab == items[Len(items)][1]
         IN  IF \E i \in DOMAIN before : before[i] = lab THEN before
             ELSE Append(before, lab)

\* label_sum[lab] = sum of max(0, score) over the items of that label.
LabelSum(items) ==
    [lab \in {items[i][1] : i \in DOMAIN items} |->
        SumSeq([i \in DOMAIN items |->
                   IF items[i][1] = lab THEN Max(0, items[i][2]) ELSE 0])]

TotalScore(items) == SumSeq([i \in DOMAIN items |-> Max(0, items[i][2])])

\* agg_emotions: each label with a positive sum, its score the exact
\* fraction num / den = label_sum / total_score, in descending order.
AggEmotionsUnsorted(items) ==
    IF TotalScore(items) > 0
    THEN LET kept == SelectSeq(LabelOrder(items), LAMBDA lab : LabelSum(items)[lab] > 0)
         IN  [i \in DOMAIN kept |->
                [label |-> kept[i],
                 score |-> [num |-> LabelSum(items)[kept[i]],
                            den |-> TotalScore(items)]]]
    ELSE << >>

AggEmotions(items) ==
    IF TotalScore(items) > 0
    THEN LET sorted == SortedDesc(LabelOrder(items), LabelSum(items))
             kept == SelectSeq(sorted, LAMBDA lab : LabelSum(items)[lab] > 0)
         IN  [i \in DOMAIN kept |->
                [label |-> kept[i],
                 score |-> [num |-> LabelSum(items)[kept[i]],
                            den |-> TotalScore(items)]]]
    ELSE << >>

\* What the external service can answer: nothing (connection error,
\* timeout), a body that is not JSON, JSON that is not an object, an
\* object without "type", an object with "type".
RemoteOutcomes == {"conn_error", "timeout", "not_json", "not_object", "no_type", "typed"}

RemoteResult == [type |-> << "E", "N", "F", "P" >>, method |-> "external"]

\* mbti_res: the parsed reply when it is an object holding "type", the
\* heuristic otherwise.
ClassifyAnyObject(c, ext, heuristic) ==
    IF c.mode = "external" /\ c.url /\ ext \in {"typed", "no_type"}
    THEN RemoteResult ELSE heuristic

Classify(c, ext, heuristic) ==
    IF c.mode = "external" /\ c.url /\ ext = "typed" THEN RemoteResult ELSE heuristic

\* get_analytics(userid, days, start, end) on events evs at clock reading
\* nw: order is the ts order in which the selected events are scanned, ext
\* the outcome of the external call if one is made.
GetAnalytics(evs, e, w, nw, c, order, ext) ==
    LET all == StatsScan(order, c.max_events)
        rows == ScanLimit(order, c.max_events)
        vs == Column(evs, rows, "valence")
        as_ == Column(evs, rows, "arousal")
        ds == Column(evs, rows, "dominance")
        pos_cnt == Cardinality({i \in DOMAIN vs : vs[i] >= c.pos_cut})
        neg_cnt == Cardinality({i \in DOMAIN vs : vs[i] <= c.neg_cut})
        n_events == Len(vs)
        pos_ratio == IF n_events > 0 THEN (pos_cnt * Scale) \div n_events ELSE 0
        neg_ratio == IF n_events > 0 THEN (neg_cnt * Scale) \div n_events ELSE 0
        agg_emotions == AggEmotions(ScannedItems(evs, rows))
        dominant_emotion == IF Len(agg_emotions) > 0
                            THEN << agg_emotions[1].label >> ELSE << >>
        avg_a == Avg(Column(evs, all, "arousal"), 500000)
    IN  [userid |-> e,
         total_events |-> Len(all),
         avg_valence |-> Avg(Column(evs, all, "valence"), 500000),
         avg_arousal |-> avg_a,
         avg_dominance |-> Avg(Column(evs, all, "dominance"), 500000),
         avg_stress |-> Avg(Column(evs, all, "stress"), 300000),
         first_event |-> IF Len(all) = 0 THEN << >> ELSE << evs[all[1]].ts >>,
         last_event |-> IF Len(all) = 0 THEN << >> ELSE << evs[all[Len(all)]].ts >>,
         v_std |-> Std(vs), a_std |-> Std(as_), d_std |-> Std(ds),
         pos_ratio |-> pos_ratio, neg_ratio |-> neg_ratio,
         top_emotions |-> PySlice(agg_emotions, c.top_n),
         mbti |-> Classify(c, ext,
                     HeuristicMbti(avg_a, Std(vs), pos_ratio, Std(as_),
                                   dominant_emotion, c))]

\* The options get_analytics reads: classifier mode, whether an external
\* URL is configured, the scan cap, the four threshold pairs and the
\* valence cut-offs.
HeuristicOptions ==
    [mode |-> "heuristic", url |-> FALSE, max_events |-> 1,
     ie_low |-> 400000, ie_high |-> 600000, sn_low |-> 100000, sn_high |-> 300000,
     tf_low |-> 400000, tf_high |-> 600000, jp_low |-> 100000, jp_high |-> 300000,
     pos_cut |-> 600000, neg_cut |-> 400000]

AnalyticsConfigs ==
    { HeuristicOptions,
      [HeuristicOptions EXCEPT !.mode = "external", !.url = TRUE, !.max_events = 2],
      [HeuristicOptions EXCEPT !.mode = "external", !.max_events = 2] }

\* ------------------------------------------------------------------ schema
EventsBaseCols ==
    {"ts", "userid", "username", "text", "sentiment", "valence", "arousal",
     "dominance", "stress", "top_emotions"}

BackfillCols ==
    {"top_emotions_fast", "stress_slow", "trend_valence", "trend_arousal",
     "trend_dominance", "stress_trend"}

UserStateCols ==
    {"userid", "username", "count", "vad_valence", "vad_arousal",
     "vad_dominance", "baseline_valence", "baseline_arousal",
     "baseline_dominance", "stress", "stress_level", "top_emotions",
     "updated_at", "updated_ts"} \cup BackfillCols

\* The store on disk: whether the store directory exists, and the columns
\* of each table of the database file ({} when the table, or the file, does
\* not exist).
NoDisk == [dir |-> FALSE, events |-> {}, user_state |-> {}]

\* CREATE TABLE IF NOT EXISTS
CreateIfNotExists(cols, wanted) == IF cols = {} THEN wanted ELSE cols

\* duckdb.connect(db_path) creates a missing file but not a missing
\* directory.
CanConnect(d) == d.dir

\* UserStore._ensure_schema on an open connection: both tables are created
\* when missing and the later-added columns are added when missing.
EnsureSchema(d) ==
    [dir |-> d.dir,
     events |-> CreateIfNotExists(d.events, EventsBaseCols) \cup {"emotions"},
     user_state |-> CreateIfNotExists(d.user_state, UserStateCols) \cup BackfillCols]

\* NULL in a column (a NULL number reads as 0 under Python's `or`).
Null(c) ==
    IF c \in {"top_emotions", "top_emotions_fast", "emotions"} THEN JsonNull ELSE 0

\* The rows of a table after ALTER TABLE ... ADD COLUMN for the columns in
\* added that it lacks: every row keeps its values and holds NULL in each
\* new column.
MigrateRecreate(tbl, added) == << >>

Migrate(tbl, added) ==
    [i \in DOMAIN tbl |->
        [c \in DOMAIN tbl[i] \cup added |->
            IF c \in DOMAIN tbl[i] THEN tbl[i][c] ELSE Null(c)]]

\* UserStore._ensure_inited: once per store object, make the directory and
\* create the tables.
EnsureInited(i, d) ==
    IF i THEN d
    ELSE [dir |-> TRUE,
          events |-> CreateIfNotExists(d.events, EventsBaseCols) \cup {"emotions"},
          user_state |-> CreateIfNotExists(d.user_state, UserStateCols)]

\* ------------------------------------------------------------------- state
VARIABLES
    inited,       \* UserStore._inited
    disk,         \* store directory and tables on disk
    reply,        \* result of the last read operation
    clock,        \* wall clock (time.time()), non-decreasing
    cfg,          \* configuration of the process
    user_state,   \* table user_state: sequence of rows (no key constraint)
    events,       \* table events: sequence of rows, in insertion order
    conn_lock,    \* holder of UserStore._conn_lock, or NoThread
    pc,           \* per thread: position in analyze / update_user
    uid,          \* per thread: userid argument
    obs,          \* per thread: observation arguments
    now,          \* per thread: clock reading taken on entry
    prev,         \* per thread: <<row>> read under the lock, or <<>>
    out,          \* per thread: <<row>> written by this call, or <<>>
    ret,          \* per thread: <<UserState>> returned, or <<>>
    resp,         \* per thread: last response of analyze
    ncalls,       \* history: calls started
    committed,    \* history: per entity, state writes committed
    returned,     \* history: per entity, update_user calls that returned
    event_obs,    \* history: observation passed to the call of each event
    store,        \* module global _store: NoStore, or the UserStore it names
    built,        \* history: the UserStore instances constructed
    got           \* per thread: the instance get_store returned

vars == << inited, disk, reply, clock, cfg, user_state, events, conn_lock, pc, uid, obs, now,
           prev, out, ret, resp, ncalls, committed, returned,
           event_obs, store, built, got >>

\* The instance a thread holds before get_store has returned one.
NoStore == 0

\* The operations below are those of one UserStore, which every caller
\* was handed.
OneStore ==
    /\ store = 1
    /\ built = {1}
    /\ got = [t \in Threads |-> 1]

NoResp == [status |-> 0, user |-> << >>, outcome |-> "none"]

\* What a store operation called on its own gave back: the operation, its
\* entity, whether it found the tables missing on an initialised store
\* (healed), the row it selected (seen), how it ended (outcome: "returned",
\* "absent" for None, "raised") and its result.
NoReply ==
    [op |-> "none", userid |-> "", healed |-> FALSE, seen |-> << >>,
     outcome |-> "none", value |-> << >>]

Reply(op, e, healed, seen, outcome, value) ==
    [op |-> op, userid |-> e, healed |-> healed, seen |-> seen,
     outcome |-> outcome, value |-> value]

Init ==
    /\ inited = FALSE
    /\ disk = NoDisk
    /\ reply = NoReply
    /\ clock = 1
    /\ cfg \in Configs
    /\ user_state = << >>
    /\ events = << >>
    /\ conn_lock = NoThread
    /\ pc = [t \in Threads |-> "idle"]
    /\ uid = [t \in Threads |-> "e1"]
    /\ obs = [t \in Threads |-> ObsJoy]
    /\ now = [t \in Threads |-> 1]
    /\ prev = [t \in Threads |-> << >>]
    /\ out = [t \in Threads |-> << >>]
    /\ ret = [t \in Threads |-> << >>]
    /\ resp = [t \in Threads |-> NoResp]
    /\ ncalls = 0
    /\ OneStore
    /\ committed = [e \in Entities |-> 0]
    /\ returned = [e \in Entities |-> 0]
    /\ event_obs = << >>

\* ----------------------------------------------------------------- actions
\* The wall clock advances.
Tick ==
    /\ UNCHANGED << inited, disk, reply >>
    /\ clock < MaxClock
    /\ clock' = clock + 1
    /\ UNCHANGED << cfg, user_state, events, conn_lock, pc, uid, obs, now,
                    prev, out, ret, resp, ncalls, store, built, got, committed, returned, event_obs >>

\* A worker is free before its first request and after it has answered one.
Free(t) == pc[t] \in {"idle", "responded"}

\* Requests are handed to the first free worker.
FirstIdle(t) == Free(t) /\ \A u \in Threads : Free(u) => t <= u

\* analyze's `except Exception: user_state = None` around the update_user
\* call, then AnalyzeResponse(..., user=user_state): the response of a
\* request whose update_user call returned r or raised.
ResponseOf(outcome, r) ==
    IF outcome = "returned"
    THEN [status |-> 200, user |-> r, outcome |-> "returned"]
    ELSE [status |-> 200, user |-> << >>, outcome |-> "raised"]

\* /analyze with a userid: the classifier has produced observation o and
\* the handler calls update_user, which takes its clock reading before it
\* asks for the lock.
Call(t, e, o, limit) ==
    /\ inited' = TRUE
    /\ disk' = EnsureInited(inited, disk)
    /\ UNCHANGED reply
    /\ FirstIdle(t)
    /\ ncalls < limit
    /\ pc' = [pc EXCEPT ![t] = "wait_lock"]
    /\ uid' = [uid EXCEPT ![t] = e]
    /\ obs' = [obs EXCEPT ![t] = o]
    /\ now' = [now EXCEPT ![t] = clock]
    /\ prev' = [prev EXCEPT ![t] = << >>]
    /\ out' = [out EXCEPT ![t] = << >>]
    /\ ret' = [ret EXCEPT ![t] = << >>]
    /\ resp' = [resp EXCEPT ![t] = NoResp]
    /\ ncalls' = ncalls + 1
    /\ UNCHANGED << store, built, got >>
    /\ UNCHANGED << clock, cfg, user_state, events, conn_lock, committed,
                    returned, event_obs >>

Analyze(t, e, o) == Call(t, e, o, MaxCalls)

\* `with self._conn_lock:` can be entered when nobody holds the lock.
LockIgnored(t) == TRUE

LockFree(t) == conn_lock = NoThread

\* Entering the `with self._conn_lock:` block and the SELECT of the
\* previous row.
ReadPrev(t) ==
    /\ disk' = EnsureSchema(disk)
    /\ UNCHANGED << inited, reply >>
    /\ pc[t] = "wait_lock"
    /\ LockFree(t)
    /\ conn_lock' = t
    /\ prev' = [prev EXCEPT ![t] = FetchOne(user_state, uid[t])]
    /\ pc' = [pc EXCEPT ![t] = "read"]
    /\ UNCHANGED << clock, cfg, user_state, events, uid, obs, now, out, ret,
                    resp, ncalls, store, built, got, committed, returned, event_obs >>

\* The smoothing computation and the UPDATE / INSERT, then the end of the
\* `with self._conn_lock:` block.
WriteState(t) ==
    /\ disk' = EnsureSchema(disk)
    /\ UNCHANGED << inited, reply >>
    /\ pc[t] = "read"
    /\ ~UpdateRaises(prev[t])
    /\ \E base \in Orders(AllLabels(prev[t], obs[t], now[t])) :
          LET row == NewRow(prev[t], uid[t], obs[t], now[t], cfg, base)
          IN  /\ user_state' = Upsert(user_state, prev[t], uid[t], row)
              /\ out' = [out EXCEPT ![t] = << row >>]
    /\ conn_lock' = NoThread
    /\ committed' = [committed EXCEPT ![uid[t]] = @ + 1]
    /\ pc' = [pc EXCEPT ![t] = "written"]
    /\ UNCHANGED << clock, cfg, events, uid, obs, now, prev, ret, resp,
                    ncalls, store, built, got, returned, event_obs >>

\* The UPDATE / INSERT fails (storage error): nothing is written, the
\* exception leaves the `with` block, releasing the lock, and update_user
\* raises into analyze, which answers.
WriteStateFails(t) ==
    /\ UNCHANGED << inited, disk, reply >>
    /\ pc[t] = "read"
    /\ conn_lock' = NoThread
    /\ resp' = [resp EXCEPT ![t] = ResponseOf("raised", << >>)]
    /\ pc' = [pc EXCEPT ![t] = "responded"]
    /\ UNCHANGED << clock, cfg, user_state, events, uid, obs, now, prev, out,
                    ret, ncalls, store, built, got, committed, returned, event_obs >>

\* self.append_event(..., VADResult(**new_vad), StressResult(**new_stress),
\* emotions) after the lock is released, the return of the typed state, and
\* the response analyze builds from it.
AppendEvent(t) ==
    /\ disk' = EnsureSchema(disk)
    /\ UNCHANGED << inited, reply >>
    /\ pc[t] = "written"
    /\ LET row == out[t][1]
       IN  /\ events' = Append(events,
                 EventRow(clock, uid[t], obs[t],
                          [valence |-> row.vad_valence, arousal |-> row.vad_arousal,
                           dominance |-> row.vad_dominance],
                          [score |-> row.stress, level |-> row.stress_level],
                          cfg.top_n))
           /\ ret' = [ret EXCEPT ![t] = << ReturnedState(row) >>]
           /\ resp' = [resp EXCEPT ![t] = ResponseOf("returned", << ReturnedState(row) >>)]
    /\ event_obs' = Append(event_obs, obs[t])
    /\ returned' = [returned EXCEPT ![uid[t]] = @ + 1]
    /\ pc' = [pc EXCEPT ![t] = "responded"]
    /\ UNCHANGED << clock, cfg, user_state, conn_lock, uid, obs, now, prev,
                    out, ncalls, store, built, got, committed >>

\* The INSERT INTO events fails (storage error): update_user raises after
\* the state row was committed, and analyze answers.
AppendEventFails(t) ==
    /\ UNCHANGED << inited, disk, reply >>
    /\ pc[t] = "written"
    /\ resp' = [resp EXCEPT ![t] = ResponseOf("raised", << >>)]
    /\ pc' = [pc EXCEPT ![t] = "responded"]
    /\ UNCHANGED << clock, cfg, user_state, events, conn_lock, uid, obs, now,
                    prev, out, ret, ncalls, store, built, got, committed, returned,
                    event_obs >>

Step(t) ==
    \/ \E e \in Entities, o \in Observations : Analyze(t, e, o)
    \/ ReadPrev(t)
    \/ WriteState(t)
    \/ WriteStateFails(t)
    \/ AppendEvent(t)
    \/ AppendEventFails(t)

Next ==
    \/ Tick
    \/ \E t \in Threads : Step(t)

Spec == Init /\ [][Next]_vars

\* Calls applied strictly one after another: a call starts only when no
\* other call is in flight.
AllIdle == \A t \in Threads : Free(t)

AnalyzeAlone(t, e, o) == AllIdle /\ Call(t, e, o, MaxSeqCalls)

SeqNext ==
    \/ Tick
    \/ \E t \in Threads :
          \/ \E e \in Entities, o \in Observations : AnalyzeAlone(t, e, o)
          \/ ReadPrev(t)
          \/ WriteState(t)
          \/ WriteStateFails(t)
          \/ AppendEvent(t)
          \/ AppendEventFails(t)
      
SpecSeq == Init /\ [][SeqNext]_vars

\* ------------------------------------------------- the store, one caller
\* A single caller invokes the public operations of the store one at a
\* time, on a store that may hold rows written before this process
\* started, while the store on disk may be deleted from outside.
MaxStoreOps == 2

\* A row found at start-up for entity "e1", with the given JSON columns.
StoredRow(c, slow_col, fast_col) ==
    [NewRow(<< >>, "e1", ObsJoy, 1, c, << "joy", "trust" >>)
        EXCEPT !.top_emotions = slow_col, !.top_emotions_fast = fast_col]

StoredColumns == {JsonList(<< [label |-> "joy", score |-> 450000] >>)}
                    \cup {Malformed(k) : k \in MalformedKinds}

StoredEvent ==
    EventRow(1, "e1", ObsJoy,
             [valence |-> 700000, arousal |-> 650000, dominance |-> 550000],
             [score |-> 250000, level |-> "low"], 2)

InitStore ==
    /\ inited = FALSE
    /\ reply = NoReply
    /\ clock = 1
    /\ cfg \in {c @@ HeuristicOptions : c \in Configs}
    /\ \/ /\ disk = NoDisk
          /\ user_state = << >>
          /\ events = << >>
       \/ /\ disk = EnsureSchema([dir |-> TRUE, events |-> {}, user_state |-> {}])
          /\ \E a \in StoredColumns, b \in StoredColumns :
                user_state = << StoredRow(cfg, a, b) >>
          /\ events = << StoredEvent >>
    /\ conn_lock = NoThread
    /\ pc = [t \in Threads |-> "idle"]
    /\ uid = [t \in Threads |-> "e1"]
    /\ obs = [t \in Threads |-> ObsJoy]
    /\ now = [t \in Threads |-> 1]
    /\ prev = [t \in Threads |-> << >>]
    /\ out = [t \in Threads |-> << >>]
    /\ ret = [t \in Threads |-> << >>]
    /\ resp = [t \in Threads |-> NoResp]
    /\ ncalls = 0
    /\ OneStore
    /\ committed = [e \in Entities |-> 0]
    /\ returned = [e \in Entities |-> 0]
    /\ event_obs = << >>

\* What every store operation leaves alone.
StoreFrame ==
    UNCHANGED << clock, cfg, conn_lock, pc, uid, obs, now, prev, out, ret, resp >>

\* Every operation starts with _ensure_inited() and opens a connection,
\* on which it runs _ensure_schema(conn).
Opened == EnsureInited(inited, disk)

Healed == inited /\ disk.user_state = {} /\ disk.events = {}

StoreBegin ==
    /\ ncalls < MaxStoreOps
    /\ ncalls' = ncalls + 1
    /\ UNCHANGED << store, built, got >>
    /\ inited' = TRUE

\* duckdb.connect raises: the operation ends with the exception.
StoreRaises(op, e) ==
    /\ ~CanConnect(Opened)
    /\ disk' = Opened
    /\ reply' = Reply(op, e, Healed, << >>, "raised", << >>)
    /\ UNCHANGED << user_state, events, committed, returned, event_obs >>

\* update_user(e, ...) from its first line to its return.
StoreUpdateUser(e, o) ==
    /\ StoreBegin
    /\ StoreFrame
    /\ \/ StoreRaises("update_user", e)
       \/ /\ CanConnect(Opened)
          /\ disk' = EnsureSchema(Opened)
          /\ LET pv == FetchOne(user_state, e)
             IN  IF UpdateRaises(pv)
                 THEN /\ reply' = Reply("update_user", e, Healed, pv, "raised", << >>)
                      /\ UNCHANGED << user_state, events, committed, returned,
                                      event_obs >>
                 ELSE \E base \in Orders(AllLabels(pv, o, clock)) :
                        LET row == NewRow(pv, e, o, clock, cfg, base)
                        IN  /\ user_state' = Upsert(user_state, pv, e, row)
                            /\ events' = Append(events,
                                  EventRow(clock, e, o,
                                      [valence |-> row.vad_valence,
                                       arousal |-> row.vad_arousal,
                                       dominance |-> row.vad_dominance],
                                      [score |-> row.stress, level |-> row.stress_level],
                                      cfg.top_n))
                            /\ reply' = Reply("update_user", e, Healed, pv, "returned",
                                              << ReturnedState(row) >>)
                            /\ committed' = [committed EXCEPT ![e] = @ + 1]
                            /\ returned' = [returned EXCEPT ![e] = @ + 1]
                            /\ event_obs' = Append(event_obs, o)

\* load_user(e), as GET /user/{userid} calls it.
StoreLoadUser(e) ==
    /\ StoreBegin
    /\ StoreFrame
    /\ \/ StoreRaises("load_user", e)
       \/ /\ CanConnect(Opened)
          /\ disk' = EnsureSchema(Opened)
          /\ reply' = Reply("load_user", e, Healed, FetchOne(user_state, e),
                            IF Len(LoadUser(user_state, e)) = 0
                            THEN "absent" ELSE "returned",
                            LoadUser(user_state, e))
          /\ UNCHANGED << user_state, events, committed, returned, event_obs >>

\* list_events(e)
StoreListEvents(e) ==
    /\ StoreBegin
    /\ StoreFrame
    /\ \/ StoreRaises("list_events", e)
       \/ /\ CanConnect(Opened)
          /\ disk' = EnsureSchema(Opened)
          /\ \E order \in ListOrders(events, ListMatching(events, e, << >>, << >>)) :
                reply' = Reply("list_events", e, Healed, << >>, "returned",
                               ListEvents(events, order, 200))
          /\ UNCHANGED << user_state, events, committed, returned, event_obs >>

\* get_analytics(e)
StoreGetAnalytics(e) ==
    /\ StoreBegin
    /\ StoreFrame
    /\ \/ StoreRaises("get_analytics", e)
       \/ /\ CanConnect(Opened)
          /\ disk' = EnsureSchema(Opened)
          /\ \E order \in ScanOrders(events,
                                      WindowEvents(events, e, DaysWindow(0), clock)) :
                reply' = Reply("get_analytics", e, Healed, << >>, "returned",
                               << GetAnalytics(events, e, DaysWindow(0), clock, cfg,
                                               order, "not_called") >>)
          /\ UNCHANGED << user_state, events, committed, returned, event_obs >>

\* append_event(e, ...) called on its own, with the results it is handed.
StoreAppendEvent(e, o) ==
    /\ StoreBegin
    /\ StoreFrame
    /\ \/ StoreRaises("append_event", e)
       \/ /\ CanConnect(Opened)
          /\ disk' = EnsureSchema(Opened)
          /\ events' = Append(events,
                EventRow(clock, e, o,
                    [valence |-> o.valence, arousal |-> o.arousal,
                     dominance |-> o.dominance],
                    [score |-> o.stress, level |-> o.level], cfg.top_n))
          /\ event_obs' = Append(event_obs, o)
          /\ reply' = Reply("append_event", e, Healed, << >>, "returned", << >>)
          /\ UNCHANGED << user_state, committed, returned >>

\* export_user_parquet(e): the entity's user directory is made with its
\* parents (which makes a missing store directory again), then the
\* entity's events are copied, oldest first, to a file.
StoreExport(e) ==
    /\ StoreBegin
    /\ StoreFrame
    /\ disk' = EnsureSchema([Opened EXCEPT !.dir = TRUE])
    /\ \E order \in ScanOrders(events, ListMatching(events, e, << >>, << >>)) :
          reply' = Reply("export_user_parquet", e, Healed, << >>, "returned",
                         [i \in DOMAIN order |-> events[order[i]]])
    /\ UNCHANGED << user_state, events, committed, returned, event_obs >>

\* The database file is removed from outside: both tables and their rows
\* are gone, the store directory stays.
DeleteFile ==
    /\ disk.user_state # {} \/ disk.events # {}
    /\ disk' = [disk EXCEPT !.events = {}, !.user_state = {}]
    /\ user_state' = << >>
    /\ events' = << >>
    /\ UNCHANGED << inited, reply, ncalls, store, built, got, committed, returned, event_obs >>
    /\ StoreFrame

\* The store directory is removed from outside, with the file in it.
DeleteDirectory ==
    /\ disk.dir
    /\ disk' = NoDisk
    /\ user_state' = << >>
    /\ events' = << >>
    /\ UNCHANGED << inited, reply, ncalls, store, built, got, committed, returned, event_obs >>
    /\ StoreFrame

StoreNext ==
    \/ Tick
    \/ \E e \in Entities, o \in Observations : StoreUpdateUser(e, o)
    \/ \E e \in Entities : StoreLoadUser(e)
    \/ \E e \in Entities : StoreListEvents(e)
    \/ \E e \in Entities : StoreGetAnalytics(e)
    \/ \E e \in Entities, o \in Observations : StoreAppendEvent(e, o)
    \/ \E e \in Entities : StoreExport(e)
    \/ DeleteFile
    \/ DeleteDirectory

SpecStore == InitStore /\ [][StoreNext]_vars

\* The same operations on a store whose stored row, when there is one,
\* holds either well-formed JSON columns or a JSON number (on which
\* update_user raises).
LogColumns == {c \in StoredColumns : c.kind \in {"list", "number"}}

InitLog ==
    /\ InitStore
    /\ \A i \in DOMAIN user_state :
          /\ user_state[i].top_emotions \in LogColumns
          /\ user_state[i].top_emotions_fast \in LogColumns

SpecLog == InitLog /\ [][StoreNext]_vars

\* ---------------------------------------------- the smoothing step alone
\* One caller updates one entity again and again, under every configuration
\* of half-lives, gain and top-N, with observations that reach the ends of
\* the score range, at any elapsed time.
MaxSmoothCalls == 3
MaxSmoothClock == 3

ObsEdge ==
    [username |-> "ann", text |-> "t3", sentiment |-> "neutral",
     valence |-> 0, arousal |-> 1000000, dominance |-> 1000000,
     stress |-> 1000000, level |-> "high",
     emotions |-> << [label |-> "trust", score |-> 2],
                     [label |-> "sadness", score |-> 1] >>]

SmoothObservations == {ObsSad, ObsEdge}

\* Values the configuration getters can return: half-lives that are
\* positive, zero or negative, a gain that is zero, positive or negative, a
\* top-N that is positive, zero or negative.
SmoothConfigs ==
    { [fast_half |-> 1, slow_half |-> 2, gain_num |-> 0, gain_den |-> 1, top_n |-> 2],
      [fast_half |-> 2, slow_half |-> 1, gain_num |-> 0, gain_den |-> 1, top_n |-> 1],
      [fast_half |-> 0, slow_half |-> 0, gain_num |-> 1, gain_den |-> 2, top_n |-> 0],
      [fast_half |-> -1, slow_half |-> -1, gain_num |-> -2, gain_den |-> 1, top_n |-> -1],
      [fast_half |-> 1, slow_half |-> 2, gain_num |-> 2, gain_den |-> 1, top_n |-> 3],
      [fast_half |-> 1, slow_half |-> 0, gain_num |-> -2, gain_den |-> 1, top_n |-> 2],
      [fast_half |-> 0, slow_half |-> 2, gain_num |-> 0, gain_den |-> 1, top_n |-> 1] }

InitSmooth ==
    /\ inited = FALSE
    /\ disk = NoDisk
    /\ reply = NoReply
    /\ clock = 1
    /\ cfg \in SmoothConfigs
    /\ user_state = << >>
    /\ events = << >>
    /\ conn_lock = NoThread
    /\ pc = [t \in Threads |-> "idle"]
    /\ uid = [t \in Threads |-> "e1"]
    /\ obs = [t \in Threads |-> ObsJoy]
    /\ now = [t \in Threads |-> 1]
    /\ prev = [t \in Threads |-> << >>]
    /\ out = [t \in Threads |-> << >>]
    /\ ret = [t \in Threads |-> << >>]
    /\ resp = [t \in Threads |-> NoResp]
    /\ ncalls = 0
    /\ OneStore
    /\ committed = [e \in Entities |-> 0]
    /\ returned = [e \in Entities |-> 0]
    /\ event_obs = << >>

\* time.time() moves on between two calls.
SmoothTick ==
    /\ clock < MaxSmoothClock
    /\ clock' = clock + 1
    /\ UNCHANGED << inited, disk, reply, cfg, user_state, events, conn_lock,
                    pc, uid, obs, now, prev, out, ret, resp, ncalls, store, built, got,
                    committed, returned, event_obs >>

\* update_user("e1", ...) with observation o, called by /analyze on worker
\* 1 with nothing else running, from its first line to the response.
SmoothUpdate(o) ==
    /\ ncalls < MaxSmoothCalls
    /\ ncalls' = ncalls + 1
    /\ UNCHANGED << store, built, got >>
    /\ inited' = TRUE
    /\ disk' = EnsureSchema(EnsureInited(inited, disk))
    /\ LET pv == FetchOne(user_state, "e1")
       IN  /\ ~UpdateRaises(pv)
           /\ \E base \in Orders(AllLabels(pv, o, clock)) :
                LET row == NewRow(pv, "e1", o, clock, cfg, base)
                IN  /\ user_state' = Upsert(user_state, pv, "e1", row)
                    /\ events' = Append(events,
                          EventRow(clock, "e1", o,
                              [valence |-> row.vad_valence,
                               arousal |-> row.vad_arousal,
                               dominance |-> row.vad_dominance],
                              [score |-> row.stress, level |-> row.stress_level],
                              cfg.top_n))
                    /\ prev' = [prev EXCEPT ![1] = pv]
                    /\ out' = [out EXCEPT ![1] = << row >>]
                    /\ ret' = [ret EXCEPT ![1] = << ReturnedState(row) >>]
                    /\ resp' = [resp EXCEPT ![1] =
                                  ResponseOf("returned", << ReturnedState(row) >>)]
    /\ uid' = [uid EXCEPT ![1] = "e1"]
    /\ obs' = [obs EXCEPT ![1] = o]
    /\ now' = [now EXCEPT ![1] = clock]
    /\ pc' = [pc EXCEPT ![1] = "responded"]
    /\ committed' = [committed EXCEPT !["e1"] = @ + 1]
    /\ returned' = [returned EXCEPT !["e1"] = @ + 1]
    /\ event_obs' = Append(event_obs, o)
    /\ UNCHANGED << reply, clock, cfg, conn_lock >>

SmoothNext ==
    \/ SmoothTick
    \/ \E o \in SmoothObservations : SmoothUpdate(o)

SpecSmooth == InitSmooth /\ [][SmoothNext]_vars

\* -------------------------------------------------------- analytics alone
\* Events are logged, then the summary is asked for over several windows,
\* under each classifier mode and every answer of the external service.
\* A query changes no row of the store, so a behaviour holds one query,
\* made after the events it summarises were logged.
MaxLogged == 2

LegacyEvent == [StoredEvent EXCEPT !.emotions = JsonNull]

AnalyticsWindows ==
    { RangeWindow(<< 2 >>, << >>), RangeWindow(<< >>, << 1 >>),
      RangeWindow(<< 2 >>, << 1 >>), DaysWindow(0), DaysWindow(1) }

Logged == { << "e1", ObsJoy >>, << "e1", ObsSad >>, << "e2", ObsJoy >> }

InitAnalytics ==
    /\ inited = FALSE
    /\ reply = NoReply
    /\ clock = 1
    /\ cfg \in {c @@ a : c \in Configs, a \in AnalyticsConfigs}
    /\ \/ /\ disk = NoDisk
          /\ events = << >>
       \/ /\ disk = [dir |-> TRUE, events |-> EventsBaseCols,
                      user_state |-> UserStateCols]
          /\ events = << LegacyEvent >>
    /\ user_state = << >>
    /\ conn_lock = NoThread
    /\ pc = [t \in Threads |-> "idle"]
    /\ uid = [t \in Threads |-> "e1"]
    /\ obs = [t \in Threads |-> ObsJoy]
    /\ now = [t \in Threads |-> 1]
    /\ prev = [t \in Threads |-> << >>]
    /\ out = [t \in Threads |-> << >>]
    /\ ret = [t \in Threads |-> << >>]
    /\ resp = [t \in Threads |-> NoResp]
    /\ ncalls = 0
    /\ OneStore
    /\ committed = [e \in Entities |-> 0]
    /\ returned = [e \in Entities |-> 0]
    /\ event_obs = << >>

\* append_event(e, ...) with the results of observation o.
LogEvent(e, o) ==
    /\ reply.op = "none"
    /\ ncalls < MaxLogged
    /\ ncalls' = ncalls + 1
    /\ UNCHANGED << store, built, got >>
    /\ inited' = TRUE
    /\ disk' = EnsureSchema(EnsureInited(inited, disk))
    /\ events' = Append(events,
          EventRow(clock, e, o,
              [valence |-> o.valence, arousal |-> o.arousal,
               dominance |-> o.dominance],
              [score |-> o.stress, level |-> o.level], cfg.top_n))
    /\ UNCHANGED << reply, user_state, committed, returned, event_obs >>
    /\ StoreFrame

\* The outcomes of the external call a query under configuration c can
\* meet ("not_called" when it makes none).
RemoteOutcomesFor(c) ==
    IF c.mode = "external" /\ c.url THEN RemoteOutcomes ELSE {"not_called"}

\* get_analytics(e, ...) over window w.
Query(e, w, ext) ==
    /\ reply.op = "none"
    /\ inited' = TRUE
    /\ disk' = EnsureSchema(EnsureInited(inited, disk))
    /\ \E order \in ScanOrders(events, WindowEvents(events, e, w, clock)) :
          reply' = Reply("get_analytics", e, Healed,
                         << [window |-> w, ext |-> ext, order |-> order,
                             rows |-> ScanLimit(order, cfg.max_events)] >>,
                         "returned",
                         << GetAnalytics(events, e, w, clock, cfg, order, ext) >>)
    /\ UNCHANGED << user_state, events, ncalls, store, built, got, committed, returned, event_obs >>
    /\ StoreFrame

AnalyticsNext ==
    \/ Tick
    \/ \E lg \in Logged : LogEvent(lg[1], lg[2])
    \/ \E e \in Entities, w \in AnalyticsWindows, ext \in RemoteOutcomesFor(cfg) :
          Query(e, w, ext)

SpecAnalytics == InitAnalytics /\ [][AnalyticsNext]_vars

\* ------------------------------------------------ the statistics alone
\* _std and _heuristic_mbti applied to drawn inputs: arrays of up to
\* MaxStdLen values, and four statistics on a grid that holds 0, 1, both
\* thresholds of the axis and StatSteps - 1 points between them. Both are
\* pure, so a behaviour applies one of them once.
MaxStdLen == 3
StatSteps == 4

StdValues == {0, 100000, 500000, 900000, 1000000}

StdArrays == UNION {[1..n -> StdValues] : n \in 0..MaxStdLen}

ThresholdConfigs ==
    { HeuristicOptions,
      [HeuristicOptions EXCEPT !.ie_low = 200000, !.ie_high = 800000,
                               !.sn_low = 0, !.sn_high = 500000,
                               !.tf_low = 500000, !.tf_high = 500002,
                               !.jp_low = 300000, !.jp_high = 300000] }

StatGrid(low, high) ==
    {0, Scale} \cup {low + (k * (high - low)) \div StatSteps : k \in 0..StatSteps}

InitStats ==
    /\ inited = FALSE
    /\ disk = NoDisk
    /\ reply = NoReply
    /\ clock = 1
    /\ cfg \in {c @@ a : c \in Configs, a \in ThresholdConfigs}
    /\ user_state = << >>
    /\ events = << >>
    /\ conn_lock = NoThread
    /\ pc = [t \in Threads |-> "idle"]
    /\ uid = [t \in Threads |-> "e1"]
    /\ obs = [t \in Threads |-> ObsJoy]
    /\ now = [t \in Threads |-> 1]
    /\ prev = [t \in Threads |-> << >>]
    /\ out = [t \in Threads |-> << >>]
    /\ ret = [t \in Threads |-> << >>]
    /\ resp = [t \in Threads |-> NoResp]
    /\ ncalls = 0
    /\ OneStore
    /\ committed = [e \in Entities |-> 0]
    /\ returned = [e \in Entities |-> 0]
    /\ event_obs = << >>

StatsFrame ==
    /\ UNCHANGED << inited, disk, user_state, events, ncalls, store, built, got, committed,
                    returned, event_obs >>
    /\ StoreFrame

\* _std(arr)
ApplyStd(arr) ==
    /\ reply.op = "none"
    /\ reply' = Reply("_std", "", FALSE, << arr >>, "returned", << Std(arr) >>)
    /\ StatsFrame

\* _heuristic_mbti() on the four statistics.
ApplyHeuristic(avg_a, v_std, pos_ratio, a_std) ==
    /\ reply.op = "none"
    /\ reply' = Reply("_heuristic_mbti", "", FALSE,
                      << [avg_arousal |-> avg_a, v_std |-> v_std,
                          pos_ratio |-> pos_ratio, a_std |-> a_std] >>,
                      "returned",
                      << HeuristicMbti(avg_a, v_std, pos_ratio, a_std, << >>, cfg) >>)
    /\ StatsFrame

StatsNext ==
    \/ \E arr \in StdArrays : ApplyStd(arr)
    \/ \E avg_a \in StatGrid(cfg.ie_low, cfg.ie_high),
          v_std \in StatGrid(cfg.sn_low, cfg.sn_high),
          pos_ratio \in StatGrid(cfg.tf_low, cfg.tf_high),
          a_std \in StatGrid(cfg.jp_low, cfg.jp_high) :
          ApplyHeuristic(avg_a, v_std, pos_ratio, a_std)

SpecStats == InitStats /\ [][StatsNext]_vars

\* ------------------------------------------------------- listing alone
\* Events are logged, then listed under several limits and time ranges.
ListLimits == {0, 1, 2}

ListQuery(e, limit, start, end) ==
    /\ reply.op = "none"
    /\ inited' = TRUE
    /\ disk' = EnsureSchema(EnsureInited(inited, disk))
    /\ \E order \in ListOrders(events, ListMatching(events, e, start, end)) :
          reply' = Reply("list_events", e, Healed,
                         << [limit |-> limit, start |-> start, end |-> end] >>,
                         "returned", ListEvents(events, order, limit))
    /\ UNCHANGED << user_state, events, ncalls, store, built, got, committed, returned, event_obs >>
    /\ StoreFrame

EventsNext ==
    \/ Tick
    \/ \E lg \in Logged : LogEvent(lg[1], lg[2])
    \/ \E e \in Entities, limit \in ListLimits,
          start \in {<< >>, << 2 >>}, end \in {<< >>, << 1 >>, << 2 >>} :
          ListQuery(e, limit, start, end)

SpecEvents == InitAnalytics /\ [][EventsNext]_vars

\* ------------------------------------------- locks and the external call
\* Workers run update_user and get_analytics side by side, with
\* _ensure_inited, the update lock and the external call as steps of their
\* own. A worker holds the initialisation lock exactly while it is at
\* "initing" (update_user) or "a_initing" (get_analytics).
MaxLiveCalls == 3

ExternalOptions ==
    [HeuristicOptions EXCEPT !.mode = "external", !.url = TRUE, !.max_events = 2]

InitLive ==
    /\ inited = FALSE
    /\ disk = NoDisk
    /\ reply = NoReply
    /\ clock = 1
    /\ cfg \in {c @@ ExternalOptions : c \in Configs}
    /\ user_state = << >>
    /\ events = << >>
    /\ conn_lock = NoThread
    /\ pc = [t \in Threads |-> "idle"]
    /\ uid = [t \in Threads |-> "e1"]
    /\ obs = [t \in Threads |-> ObsJoy]
    /\ now = [t \in Threads |-> 1]
    /\ prev = [t \in Threads |-> << >>]
    /\ out = [t \in Threads |-> << >>]
    /\ ret = [t \in Threads |-> << >>]
    /\ resp = [t \in Threads |-> NoResp]
    /\ ncalls = 0
    /\ OneStore
    /\ committed = [e \in Entities |-> 0]
    /\ returned = [e \in Entities |-> 0]
    /\ event_obs = << >>

InitLockHeld(t) == pc[t] \in {"initing", "a_initing"}

\* A call enters: `if self._inited: return` lets it through, otherwise it
\* goes for the initialisation lock.
Enter(t, e, o, through, waiting) ==
    /\ FirstIdle(t)
    /\ ncalls < MaxLiveCalls
    /\ ncalls' = ncalls + 1
    /\ UNCHANGED << store, built, got >>
    /\ pc' = [pc EXCEPT ![t] = IF inited THEN through ELSE waiting]
    /\ uid' = [uid EXCEPT ![t] = e]
    /\ obs' = [obs EXCEPT ![t] = o]
    /\ now' = [now EXCEPT ![t] = clock]
    /\ prev' = [prev EXCEPT ![t] = << >>]
    /\ out' = [out EXCEPT ![t] = << >>]
    /\ ret' = [ret EXCEPT ![t] = << >>]
    /\ resp' = [resp EXCEPT ![t] = NoResp]
    /\ UNCHANGED << inited, disk, reply, clock, cfg, user_state, events,
                    conn_lock, committed, returned, event_obs >>

LiveUpdateUser(t, e, o) == Enter(t, e, o, "wait_lock", "wait_init")

LiveGetAnalytics(t, e) == Enter(t, e, ObsJoy, "analytics", "a_wait_init")

\* `with self._init_once_lock:` is entered.
InitAcquire(t) ==
    /\ pc[t] \in {"wait_init", "a_wait_init"}
    /\ \A u \in Threads : ~InitLockHeld(u)
    /\ pc' = [pc EXCEPT ![t] = IF pc[t] = "wait_init" THEN "initing" ELSE "a_initing"]
    /\ UNCHANGED << inited, disk, reply, clock, cfg, user_state, events,
                    conn_lock, uid, obs, now, prev, out, ret, resp, ncalls, store, built, got,
                    committed, returned, event_obs >>

\* The body of the block (the second look at _inited, the directory, the
\* tables, the latch) and its end, which releases the lock.
InitRun(t) ==
    /\ InitLockHeld(t)
    /\ inited' = TRUE
    /\ disk' = EnsureInited(inited, disk)
    /\ pc' = [pc EXCEPT ![t] = IF pc[t] = "initing" THEN "wait_lock" ELSE "analytics"]
    /\ UNCHANGED << reply, clock, cfg, user_state, events, conn_lock, uid,
                    obs, now, prev, out, ret, resp, ncalls, store, built, got, committed,
                    returned, event_obs >>

\* The body raises (the directory or the database cannot be made): the
\* lock is released, the latch stays unset and the call raises.
InitFails(t) ==
    /\ InitLockHeld(t)
    /\ ~inited
    /\ resp' = [resp EXCEPT ![t] = ResponseOf("raised", << >>)]
    /\ pc' = [pc EXCEPT ![t] = "responded"]
    /\ UNCHANGED << inited, disk, reply, clock, cfg, user_state, events,
                    conn_lock, uid, obs, now, prev, out, ret, ncalls, store, built, got,
                    committed, returned, event_obs >>

\* What `with self._conn_lock:` leaves in the lock when an exception
\* leaves the block.
HeldOnExit(t) == t

ReleasedOnExit(t) == NoThread

\* The SELECT of the previous row (or the connection) fails inside the
\* `with self._conn_lock:` block.
ReadPrevFails(t) ==
    /\ pc[t] = "wait_lock"
    /\ LockFree(t)
    /\ conn_lock' = ReleasedOnExit(t)
    /\ resp' = [resp EXCEPT ![t] = ResponseOf("raised", << >>)]
    /\ pc' = [pc EXCEPT ![t] = "responded"]
    /\ UNCHANGED << inited, disk, reply, clock, cfg, user_state, events, uid,
                    obs, now, prev, out, ret, ncalls, store, built, got, committed, returned,
                    event_obs >>

\* The lock get_analytics holds while it runs: it takes none.
AnalyticsLockTaken(t) == t

AnalyticsLock(t) == conn_lock

\* get_analytics reads the window and computes the summary; in external
\* mode with a URL it then sends the request.
AnalyticsRead(t) ==
    /\ pc[t] = "analytics"
    /\ AnalyticsLock(t) # conn_lock => conn_lock = NoThread
    /\ conn_lock' = AnalyticsLock(t)
    /\ disk' = EnsureSchema(disk)
    /\ \E order \in ScanOrders(events,
                            WindowEvents(events, uid[t], DaysWindow(0), clock)) :
          out' = [out EXCEPT ![t] =
                    << GetAnalytics(events, uid[t], DaysWindow(0), clock, cfg,
                                    order, "not_called") >>]
    /\ pc' = [pc EXCEPT ![t] = "external"]
    /\ UNCHANGED << inited, reply, clock, cfg, user_state, events, uid, obs,
                    now, prev, ret, resp, ncalls, store, built, got, committed, returned,
                    event_obs >>

\* The COUNT / AVG query fails (storage error): it is outside every try, so
\* get_analytics raises.
AnalyticsReadFails(t) ==
    /\ pc[t] = "analytics"
    /\ resp' = [resp EXCEPT ![t] = ResponseOf("raised", << >>)]
    /\ pc' = [pc EXCEPT ![t] = "responded"]
    /\ UNCHANGED << inited, disk, reply, clock, cfg, user_state, events,
                    conn_lock, uid, obs, now, prev, out, ret, ncalls, store, built, got,
                    committed, returned, event_obs >>

\* urlopen(req, timeout=5.0) comes back with an answer or an exception,
\* and get_analytics returns, leaving whatever block it was in.
ExternalReturns(t, ext) ==
    /\ pc[t] = "external"
    /\ conn_lock' = IF conn_lock = t THEN NoThread ELSE conn_lock
    /\ resp' = [resp EXCEPT ![t] =
                  ResponseOf("returned",
                      << [out[t][1] EXCEPT !.mbti = Classify(cfg, ext, out[t][1].mbti)] >>)]
    /\ pc' = [pc EXCEPT ![t] = "responded"]
    /\ UNCHANGED << inited, disk, reply, clock, cfg, user_state, events, uid,
                    obs, now, prev, out, ret, ncalls, store, built, got, committed, returned,
                    event_obs >>

\* The steps a worker takes once a call has entered.
LiveStep(t) ==
    \/ InitAcquire(t)
    \/ InitRun(t)
    \/ InitFails(t)
    \/ ReadPrevFails(t)
    \/ ReadPrev(t)
    \/ WriteStateFails(t)
    \/ WriteState(t)
    \/ AppendEventFails(t)
    \/ AppendEvent(t)
    \/ \E ext \in RemoteOutcomes : ExternalReturns(t, ext)
    \/ AnalyticsReadFails(t)
    \/ AnalyticsRead(t)

LiveNext ==
    \E t \in Threads :
       \/ \E e \in Entities : LiveUpdateUser(t, e, ObsJoy)
       \/ \E e \in Entities : LiveGetAnalytics(t, e)
       \/ LiveStep(t)

\* Threads are scheduled fairly, storage calls come back and the external
\* call ends by its timeout: a worker that can step eventually does.
SpecLive == InitLive /\ [][LiveNext]_vars /\ \A t \in Threads : WF_vars(LiveStep(t))

\* --------------------------------------------------- schema-ensure alone
\* _ensure_schema is run again and again on an open connection to a store
\* found at start-up: no file yet, a store with the current schema, or a
\* legacy store whose tables lack some of the later-added columns.
MaxSchemaCalls == 2

\* A row of a table that has only the columns cols.
Restrict(row, cols) == [c \in cols |-> row[c]]

LegacyEventsCols == {EventsBaseCols, EventsBaseCols \cup {"emotions"}}

LegacyUserStateCols == {UserStateCols \ missing : missing \in SUBSET BackfillCols}

InitSchema ==
    /\ inited = FALSE
    /\ reply = NoReply
    /\ clock = 1
    /\ cfg \in Configs
    /\ \/ /\ disk = [dir |-> TRUE, events |-> {}, user_state |-> {}]
          /\ user_state = << >>
          /\ events = << >>
       \/ \E ec \in LegacyEventsCols, uc \in LegacyUserStateCols :
             /\ disk = [dir |-> TRUE, events |-> ec, user_state |-> uc]
             /\ \/ user_state = << >>
                \/ user_state = << Restrict(StoredRow(cfg, JsonList(<< >>),
                                                     JsonList(<< >>)), uc) >>
             /\ events = << Restrict(StoredEvent, ec) >>
    /\ conn_lock = NoThread
    /\ pc = [t \in Threads |-> "idle"]
    /\ uid = [t \in Threads |-> "e1"]
    /\ obs = [t \in Threads |-> ObsJoy]
    /\ now = [t \in Threads |-> 1]
    /\ prev = [t \in Threads |-> << >>]
    /\ out = [t \in Threads |-> << >>]
    /\ ret = [t \in Threads |-> << >>]
    /\ resp = [t \in Threads |-> NoResp]
    /\ ncalls = 0
    /\ OneStore
    /\ committed = [e \in Entities |-> 0]
    /\ returned = [e \in Entities |-> 0]
    /\ event_obs = << >>

\* One call of _ensure_schema(conn): the statements that fail (a column
\* that exists already) are swallowed, so the call always returns.
EnsureSchemaAlone ==
    /\ ncalls < MaxSchemaCalls
    /\ ncalls' = ncalls + 1
    /\ UNCHANGED << store, built, got >>
    /\ CanConnect(disk)
    /\ disk' = EnsureSchema(disk)
    /\ user_state' = Migrate(user_state, BackfillCols)
    /\ events' = Migrate(events, {"emotions"})
    /\ UNCHANGED << inited, reply, clock, cfg, conn_lock, pc, uid, obs, now,
                    prev, out, ret, resp, committed, returned, event_obs >>

SchemaNext == EnsureSchemaAlone

SpecSchema == InitSchema /\ [][SchemaNext]_vars

TypeOK ==
    /\ clock \in 1..MaxClock
    /\ conn_lock \in Threads \cup {NoThread}
    /\ \A t \in Threads : Len(prev[t]) <= 1 /\ Len(out[t]) <= 1

\* ------------------------------------------------------------------ claims
\* The count persisted for entity e (0 when it has no row).
PersistedCount(e) ==
    IF Matching(user_state, e) = {} THEN 0 ELSE FetchOne(user_state, e)[1].count

\* The events logged for entity e.
NumEvents(e) == Cardinality({i \in DOMAIN events : events[i].userid = e})

\* A thread whose call has written its state row (and still holds its locals).
HasWritten(t) == pc[t] \in {"written", "responded"} /\ Len(out[t]) = 1

\* C1: no lost update.  Once every concurrent update_user call has come
\* back, the count persisted for each entity equals the number of calls
\* for that entity that wrote their state: N concurrent calls raise it by
\* exactly N.
C1_NoLostUpdate ==
    AllIdle => \A e \in Entities : PersistedCount(e) = committed[e]

\* Two overlapping calls for the same entity have both returned and the
\* count is 2.
C1_Witness ==
    /\ pc[1] = "responded" /\ pc[2] = "responded"
    /\ uid[1] = "e1" /\ uid[2] = "e1"
    /\ resp[1].outcome = "returned" /\ resp[2].outcome = "returned"
    /\ PersistedCount("e1") = 2

C3_FirstObservationBootstrap ==
    \A t \in Threads :
        (HasWritten(t) /\ Len(prev[t]) = 0) =>
            /\ out[t][1].count = 1
            /\ out[t][1].vad_valence = obs[t].valence
            /\ out[t][1].vad_arousal = obs[t].arousal
            /\ out[t][1].vad_dominance = obs[t].dominance

\* C4: updated_ts never decreases: every write of an entity's row stores an
\* updated_ts at least as large as the one it replaces.
C4_UpdatedTsMonotone ==
    [][\A e \in Entities :
          (Matching(user_state, e) # {} /\ Matching(user_state', e) # {}) =>
              FetchOne(user_state', e)[1].updated_ts
                  >= FetchOne(user_state, e)[1].updated_ts]_vars

C6_SequentialCount ==
    \A t \in Threads :
        (/\ pc[t] = "responded" /\ resp[t].outcome = "returned"
         /\ committed[uid[t]] = returned[uid[t]]) =>
            /\ ret[t][1].count = returned[uid[t]]
            /\ PersistedCount(uid[t]) = returned[uid[t]]

\* The third of three successful calls for one entity has returned.
C6_Witness ==
    /\ pc[1] = "responded" /\ resp[1].outcome = "returned"
    /\ returned[uid[1]] = 3 /\ committed[uid[1]] = 3
    /\ ret[1][1].count = 3

\* C7: observation atomicity.  When no call is in flight, the count
\* persisted for an entity equals the number of events logged for it.
C7_ObservationAtomicity ==
    AllIdle => \A e \in Entities : PersistedCount(e) = NumEvents(e)

\* C8: a call whose update_user raised is answered with a failure status,
\* never with a successful response lacking the user state.
C8_FailureSurfaced ==
    \A t \in Threads :
        (pc[t] = "responded" /\ resp[t].outcome = "raised") => resp[t].status >= 500

\* C9: every logged event records the raw observation of its call: the
\* observed valence, arousal, dominance and stress, and the full observed
\* emotion distribution.
C9_EventRecordsObservation ==
    \A i \in DOMAIN events :
        /\ events[i].valence = event_obs[i].valence
        /\ events[i].arousal = event_obs[i].arousal
        /\ events[i].dominance = event_obs[i].dominance
        /\ events[i].stress = event_obs[i].stress
        /\ events[i].emotions = JsonDumps(Pairs(event_obs[i].emotions))

\* C10: the slow stress track is its own EMA: an update of an existing row
\* writes stress_slow = old_slow + slow_alpha * (observed - old_slow), with
\* old_slow the stress_slow of the row it read.
C10_SlowStressOwnEma ==
    \A t \in Threads :
        (HasWritten(t) /\ Len(prev[t]) = 1) =>
            out[t][1].stress_slow =
                EmaStep(prev[t][1].stress_slow,
                        Alpha(Dt(prev[t], now[t]), cfg.slow_half),
                        obs[t].stress)

\* C11: reading the state of an entity that has no row does not fail and
\* does not report absence: load_user gives a typed state with the defaults
\* VAD 0.5/0.5/0.5, stress 0.3 with level low and count 0.
C11_AbsentReadsDefaults ==
    (reply.op = "load_user" /\ reply.outcome # "raised" /\ Len(reply.seen) = 0) =>
        /\ reply.outcome = "returned"
        /\ Len(reply.value) = 1
        /\ reply.value[1].count = 0
        /\ reply.value[1].vad.valence = 500000
        /\ reply.value[1].vad.arousal = 500000
        /\ reply.value[1].vad.dominance = 500000
        /\ reply.value[1].stress = [score |-> 300000, level |-> "low"]

\* A stored row with a malformed emotion-list column.
MalformedRow(row) ==
    \/ row.top_emotions.kind \in MalformedKinds
    \/ row.top_emotions_fast.kind \in MalformedKinds

\* C12: a malformed persisted emotion-list column is treated as an empty
\* list by update_user and by load_user: update_user commits the update and
\* load_user returns the state; neither raises nor reports the entity
\* absent.
C12_MalformedListIsEmpty ==
    (/\ reply.op \in {"update_user", "load_user"}
     /\ Len(reply.seen) = 1
     /\ MalformedRow(reply.seen[1])) =>
        /\ reply.outcome = "returned"
        /\ Len(reply.value) = 1
        /\ reply.op = "load_user" => reply.value[1].emotions = << >>
        /\ reply.op = "update_user" =>
              reply.value[1].count = OrDefault(reply.seen[1].count, 0) + 1

\* C20: the first operation of any kind after the store, once initialised,
\* was deleted from outside completes without error and finds no state and
\* no events for any entity.
C20_SelfHealing ==
    reply.healed =>
        /\ reply.outcome # "raised"
        /\ Len(reply.seen) = 0
        /\ reply.op = "list_events" => reply.value = << >>
        /\ reply.op = "get_analytics" => reply.value[1].total_events = 0

\* The score columns of a persisted row that the smoothing formula writes.
ScoreColumns(row) ==
    {row.vad_valence, row.vad_arousal, row.vad_dominance,
     row.baseline_valence, row.baseline_arousal, row.baseline_dominance,
     row.stress, row.stress_slow}

\* C13: range invariant.  With every observed valence, arousal, dominance
\* and stress in [0,1], the persisted fast VAD, baseline VAD, fast stress
\* and slow stress of every row lie in [0,1], whatever the elapsed times,
\* the gain and the half-lives.
C13_RangeInvariant ==
    \A i \in DOMAIN user_state :
        \A x \in ScoreColumns(user_state[i]) : 0 <= x /\ x <= Scale

\* A row updated several times, the last time under a clamped boost, whose
\* slow values sit on both ends of the range.
C13_Witness ==
    /\ HasWritten(1) /\ Len(prev[1]) = 1
    /\ out[1][1].count >= 2
    /\ out[1][1].baseline_valence = 0
    /\ out[1][1].stress_slow = Scale
    /\ out[1][1].vad_arousal > 500000
    /\ cfg.gain_num # 0

\* new is halfway from old to observed, to within one score unit.
Halfway(old, observed, new) == Abs(2 * new - (old + observed)) <= 1

\* The fast values of an update of an existing row moved halfway.
FastHalfway(t) ==
    /\ Halfway(prev[t][1].vad_valence, obs[t].valence, out[t][1].vad_valence)
    /\ Halfway(prev[t][1].vad_arousal, obs[t].arousal, out[t][1].vad_arousal)
    /\ Halfway(prev[t][1].vad_dominance, obs[t].dominance, out[t][1].vad_dominance)
    /\ Halfway(prev[t][1].stress, obs[t].stress, out[t][1].stress)

\* The baseline values of an update of an existing row moved halfway.
BaselineHalfway(t) ==
    /\ Halfway(prev[t][1].baseline_valence, obs[t].valence, out[t][1].baseline_valence)
    /\ Halfway(prev[t][1].baseline_arousal, obs[t].arousal, out[t][1].baseline_arousal)
    /\ Halfway(prev[t][1].baseline_dominance, obs[t].dominance,
               out[t][1].baseline_dominance)

\* C14: half-life law.  With gain 0, an update whose elapsed time since the
\* stored updated_ts is exactly the fast half-life h > 0 moves each fast
\* value halfway from its old value to the observed value, and an update
\* after exactly the slow half-life moves each slow value (baseline VAD and
\* slow stress) halfway likewise.
C14_HalfLifeLaw ==
    \A t \in Threads :
        (HasWritten(t) /\ Len(prev[t]) = 1 /\ cfg.gain_num = 0) =>
            /\ (cfg.fast_half > 0 /\ now[t] - prev[t][1].updated_ts = cfg.fast_half)
                  => FastHalfway(t)
            /\ (cfg.slow_half > 0 /\ now[t] - prev[t][1].updated_ts = cfg.slow_half)
                  => /\ BaselineHalfway(t)
                     /\ Halfway(prev[t][1].stress_slow, obs[t].stress,
                                out[t][1].stress_slow)

\* C15 as stated: a non-positive fast (respectively slow) half-life makes
\* the fast (respectively slow) value of every VAD dimension and of stress
\* equal to the observed value after update_user.
C15_NoMemory ==
    \A t \in Threads :
        HasWritten(t) =>
            /\ cfg.fast_half <= 0 =>
                  /\ out[t][1].vad_valence = obs[t].valence
                  /\ out[t][1].vad_arousal = obs[t].arousal
                  /\ out[t][1].vad_dominance = obs[t].dominance
                  /\ out[t][1].stress = obs[t].stress
            /\ cfg.slow_half <= 0 =>
                  /\ out[t][1].baseline_valence = obs[t].valence
                  /\ out[t][1].baseline_arousal = obs[t].arousal
                  /\ out[t][1].baseline_dominance = obs[t].dominance
                  /\ out[t][1].stress_slow = obs[t].stress

\* C15, amended: a non-positive slow half-life makes every slow value
\* (baseline VAD, slow stress) equal to the observed value.  A non-positive
\* fast half-life gives base alpha 1, but the effective fast alpha is
\* clamped to 0.99: with a gain >= 0 each fast value moves 99% of the way
\* from the value read to the observed value, and with any gain it stays on
\* the old side of the observed value unless it was already there.
C15_NoMemoryClamped ==
    \A t \in Threads :
        HasWritten(t) =>
            LET cur == Cur(prev[t], now[t])
                row == out[t][1]
                o == obs[t]
            IN  /\ cfg.slow_half <= 0 =>
                      /\ row.baseline_valence = o.valence
                      /\ row.baseline_arousal = o.arousal
                      /\ row.baseline_dominance = o.dominance
                      /\ row.stress_slow = o.stress
                /\ (cfg.fast_half <= 0 /\ cfg.gain_num >= 0) =>
                      /\ row.vad_valence = cur.valence + MulAlpha(990, o.valence - cur.valence)
                      /\ row.vad_arousal = cur.arousal + MulAlpha(990, o.arousal - cur.arousal)
                      /\ row.vad_dominance =
                            cur.dominance + MulAlpha(990, o.dominance - cur.dominance)
                      /\ row.stress = cur.stress + MulAlpha(990, o.stress - cur.stress)
                /\ cfg.fast_half <= 0 =>
                      /\ cur.valence # o.valence => row.vad_valence # o.valence
                      /\ cur.arousal # o.arousal => row.vad_arousal # o.arousal
                      /\ cur.dominance # o.dominance => row.vad_dominance # o.dominance
                      /\ cur.stress # o.stress => row.stress # o.stress

\* With both half-lives non-positive, an update of an existing row whose
\* values differ from the observation: the slow values land on the
\* observation, the fast ones do not.
C15_Witness ==
    /\ HasWritten(1) /\ Len(prev[1]) = 1
    /\ cfg.fast_half <= 0 /\ cfg.slow_half <= 0 /\ cfg.gain_num >= 0
    /\ prev[1][1].baseline_valence # obs[1].valence
    /\ out[1][1].baseline_valence = obs[1].valence
    /\ out[1][1].stress_slow = obs[1].stress
    /\ out[1][1].vad_valence # obs[1].valence

\* The effective fast alpha update_user uses for a dimension observed at
\* ob whose fast value read was old.
EffAlpha(t, ob, old) ==
    Adapt(Alpha(Dt(prev[t], now[t]), cfg.fast_half), ob, old,
          cfg.gain_num, cfg.gain_den)

\* No overshoot and no total replacement for one dimension.
Between(t, ob, old, new) ==
    /\ 0 <= EffAlpha(t, ob, old) /\ EffAlpha(t, ob, old) <= 990
    /\ Min(old, ob) <= new /\ new <= Max(old, ob)
    /\ old # ob => new # ob

\* C16: for every base alpha, gain of either sign and surprise, the
\* effective fast alpha lies in [0, 0.99]; each new fast value lies between
\* the old fast value and the observed value, and differs from the observed
\* value whenever the old one did.
C16_EffectiveAlphaClamped ==
    \A t \in Threads :
        HasWritten(t) =>
            LET cur == Cur(prev[t], now[t])
                row == out[t][1]
                o == obs[t]
            IN  /\ Between(t, o.valence, cur.valence, row.vad_valence)
                /\ Between(t, o.arousal, cur.arousal, row.vad_arousal)
                /\ Between(t, o.dominance, cur.dominance, row.vad_dominance)
                /\ Between(t, o.stress, cur.stress, row.stress)

\* An update with a positive gain whose boosted alpha hit the upper clamp
\* and moved the fast valence strictly between old and observed.
C16_Witness ==
    /\ HasWritten(1) /\ Len(prev[1]) = 1
    /\ cfg.fast_half > 0 /\ cfg.gain_num > 0
    /\ EffAlpha(1, obs[1].valence, Cur(prev[1], now[1]).valence) = 990
    /\ Alpha(Dt(prev[1], now[1]), cfg.fast_half) < 990
    /\ out[1][1].vad_valence # Cur(prev[1], now[1]).valence
    /\ out[1][1].vad_valence # obs[1].valence

\* C17: in every persisted row each trend equals the fast value minus the
\* slow value of the same row: trend_valence / arousal / dominance = vad -
\* baseline per dimension, and stress_trend = stress - stress_slow.
C17_TrendIsFastMinusSlow ==
    \A i \in DOMAIN user_state :
        LET row == user_state[i]
        IN  /\ row.trend_valence = row.vad_valence - row.baseline_valence
            /\ row.trend_arousal = row.vad_arousal - row.baseline_arousal
            /\ row.trend_dominance = row.vad_dominance - row.baseline_dominance
            /\ row.stress_trend = row.stress - row.stress_slow

\* A persisted row, updated more than once, with a negative valence trend
\* and a positive stress trend.
C17_Witness ==
    \E i \in DOMAIN user_state :
        /\ user_state[i].count >= 2
        /\ user_state[i].trend_valence < 0
        /\ user_state[i].stress_trend > 0
        /\ user_state[i].trend_arousal # 0

\* A persisted emotion list has no negligible score and is in descending
\* order of score.
CleanDescending(items) ==
    /\ \A i \in DOMAIN items : items[i].score > Eps
    /\ \A i, j \in DOMAIN items : i < j => items[i].score >= items[j].score

\* C18 as stated: for any configured K, K <= 0 included, both persisted
\* emotion lists hold at most K entries (none when K <= 0), no label whose
\* score is <= 1e-6, and are in descending order of score.
C18_TopKBound ==
    \A i \in DOMAIN user_state :
        /\ Len(user_state[i].top_emotions.items) <= Max(0, cfg.top_n)
        /\ Len(user_state[i].top_emotions_fast.items) <= Max(0, cfg.top_n)
        /\ CleanDescending(user_state[i].top_emotions.items)
        /\ CleanDescending(user_state[i].top_emotions_fast.items)

\* C18, amended: both persisted emotion lists hold at most max(1, K)
\* entries, no label whose score is <= 1e-6, and are in descending order of
\* score.
C18_TopKBoundAtLeastOne ==
    \A i \in DOMAIN user_state :
        /\ Len(user_state[i].top_emotions.items) <= Max(1, cfg.top_n)
        /\ Len(user_state[i].top_emotions_fast.items) <= Max(1, cfg.top_n)
        /\ CleanDescending(user_state[i].top_emotions.items)
        /\ CleanDescending(user_state[i].top_emotions_fast.items)

\* With K <= 0 an update that saw two labels keeps one entry in each list.
C18_Witness ==
    /\ HasWritten(1)
    /\ cfg.top_n <= 0
    /\ Cardinality(AllLabels(prev[1], obs[1], now[1])) >= 2
    /\ Len(out[1][1].top_emotions.items) = 1
    /\ Len(out[1][1].top_emotions_fast.items) = 1

\* C19: the smoothing step is deterministic.  The row a call persisted is
\* the row any execution of update_user produces from the same previous
\* row, observation, clock reading and configuration, including the labels
\* kept when several tie in score at the top-K cut-off.
C19_Deterministic ==
    \A t \in Threads :
        HasWritten(t) =>
            \A base \in Orders(AllLabels(prev[t], obs[t], now[t])) :
                NewRow(prev[t], uid[t], obs[t], now[t], cfg, base) = out[t][1]

\* Every row of tbl is still there, in place, with the values it had.
RowsKept(tbl, tbl2) ==
    /\ Len(tbl2) = Len(tbl)
    /\ \A i \in DOMAIN tbl : Restrict(tbl2[i], DOMAIN tbl[i]) = tbl[i]

\* C21: schema-ensure is idempotent.  A call of _ensure_schema leaves both
\* tables with every column of the current schema and keeps every existing
\* row with its values; a call that follows another call changes neither
\* the tables and columns nor the rows.
C21_SchemaIdempotent ==
    [][ (ncalls' = ncalls + 1) =>
           /\ disk'.events = EventsBaseCols \cup {"emotions"}
           /\ disk'.user_state = UserStateCols
           /\ RowsKept(user_state, user_state')
           /\ RowsKept(events, events')
           /\ \A i \in DOMAIN user_state' : DOMAIN user_state'[i] = UserStateCols
           /\ ncalls >= 1 =>
                 /\ disk' = disk
                 /\ user_state' = user_state
                 /\ events' = events ]_vars

\* A legacy store that lacked top_emotions_fast and stress_slow (and the
\* events column emotions), after two calls: the row is kept and holds NULL
\* in the added columns.
C21_Witness ==
    /\ ncalls = 2
    /\ Len(user_state) = 1 /\ Len(events) = 1
    /\ user_state[1].count = 1
    /\ user_state[1].top_emotions_fast = JsonNull
    /\ user_state[1].stress_slow = 0
    /\ user_state[1].trend_valence = 0
    /\ events[1].emotions = JsonNull
    /\ disk.user_state = UserStateCols

\* ------------------------------------------------------------- C22
\* C22: when the queried window holds no event of the entity, get_analytics
\* returns the unknown profile: type "XXXX", no dimensions, confidence 0.
\* (Violated: the heuristic runs on the default statistics and derives four
\* letters from them.)
C22_EmptyWindowIsUnknown ==
    (reply.op = "get_analytics" /\ reply.value[1].total_events = 0)
    => LET m == reply.value[1].mbti
       IN  /\ m.type = << "X", "X", "X", "X" >>
           /\ m.method = "heuristic" => (m.dimensions = << >> /\ m.confidence = 0)

\* ------------------------------------------------------------- C28
\* C28: a get_analytics query reads at most the configured maximum number
\* of events, whatever the window form: neither the rows it iterates nor
\* the events its aggregates are computed over exceed the maximum.
\* (Violated: the COUNT / AVG / MIN / MAX query runs over every event of
\* the window; only the row query carries the LIMIT.)
C28_ScanCapped ==
    reply.op = "get_analytics"
    => /\ Len(reply.seen[1].rows) <= Max(0, cfg.max_events)
       /\ reply.value[1].total_events <= Max(0, cfg.max_events)

\* ------------------------------------------------------------- C29
\* The emotion items of the rows a query iterated, and what they add up to.
C29_Items == ScannedItems(events, reply.seen[1].rows)

C29_SumFor(lab) ==
    SumSeq([i \in DOMAIN C29_Items |->
               IF C29_Items[i][1] = lab /\ C29_Items[i][2] > 0
               THEN C29_Items[i][2] ELSE 0])

C29_Positive == {lab \in {C29_Items[i][1] : i \in DOMAIN C29_Items} : C29_SumFor(lab) > 0}

C29_Total == SumSeq([i \in DOMAIN C29_Items |->
                        IF C29_Items[i][2] > 0 THEN C29_Items[i][2] ELSE 0])

C29_Returned == reply.value[1].top_emotions

C29_ReturnedSum == SumSeq([i \in DOMAIN C29_Returned |-> C29_Returned[i].score.num])

\* Each returned entry is a distinct label with its per-label sum over the
\* grand total, and the entries descend.
C29_Shape ==
    /\ \A i \in DOMAIN C29_Returned :
          /\ C29_Returned[i].label \in C29_Positive
          /\ C29_Returned[i].score.num = C29_SumFor(C29_Returned[i].label)
          /\ C29_Returned[i].score.den = C29_Total
    /\ \A i, j \in DOMAIN C29_Returned :
          /\ i # j => C29_Returned[i].label # C29_Returned[j].label
          /\ i < j => C29_Returned[i].score.num >= C29_Returned[j].score.num

\* C29 as stated: top_emotions is the per-label sum of non-negative scores,
\* normalised so that the returned scores sum to 1, in descending order,
\* for any number of distinct labels; empty when no score is positive.
\* (Violated: the list is cut to the configured top-N after normalising.)
C29_ReturnedSumsToOne ==
    reply.op = "get_analytics"
    => /\ C29_Shape
       /\ C29_Total > 0 => C29_ReturnedSum = C29_Total
       /\ C29_Total = 0 => C29_Returned = << >>

\* C29 amended: the scores are normalised over every label with a positive
\* sum, sorted in descending order and then cut to the first top-N entries:
\* the returned scores are the N largest, sum to 1 when no label is cut and
\* to less than 1 otherwise; the list is empty when no score is positive.
C29_NormalisedThenCut ==
    reply.op = "get_analytics"
    => /\ C29_Shape
       /\ Len(C29_Returned) = Min(Cardinality(C29_Positive), Max(0, cfg.top_n))
       /\ \A lab \in C29_Positive :
             \/ \E i \in DOMAIN C29_Returned : C29_Returned[i].label = lab
             \/ \A i \in DOMAIN C29_Returned :
                   C29_Returned[i].score.num >= C29_SumFor(lab)
       /\ IF Cardinality(C29_Positive) <= Max(0, cfg.top_n)
          THEN C29_ReturnedSum = C29_Total
          ELSE C29_ReturnedSum < C29_Total
       /\ C29_Total = 0 => C29_Returned = << >>

\* A query over three labels with positive sums, two of them returned.
C29_Witness ==
    /\ reply.op = "get_analytics"
    /\ Cardinality(C29_Positive) = 3
    /\ Len(C29_Returned) = 2
    /\ C29_ReturnedSum < C29_Total

\* ------------------------------------------------------------- C23
\* The classifier output the local heuristic gives for the reply's query.
C23_Heuristic ==
    GetAnalytics(events, reply.userid, reply.seen[1].window, clock,
                 [cfg EXCEPT !.mode = "heuristic"], reply.seen[1].order,
                 "not_called").mbti

\* C23: in external mode get_analytics returns normally for every outcome
\* of the remote call, with the local heuristic result as its classifier
\* output unless the reply was a JSON object holding "type", which is
\* passed through.
C23_DelegationFallsBack ==
    (reply.op = "get_analytics" /\ cfg.mode = "external")
    => /\ reply.outcome = "returned"
       /\ IF cfg.url /\ reply.seen[1].ext = "typed"
          THEN reply.value[1].mbti = RemoteResult
          ELSE /\ reply.value[1].mbti.method = "heuristic"
               /\ reply.value[1].mbti = C23_Heuristic

\* The remote service answered with an object that has no "type" and the
\* summary carries the heuristic letters.
C23_Witness ==
    /\ reply.op = "get_analytics"
    /\ cfg.mode = "external" /\ cfg.url
    /\ reply.seen[1].ext = "no_type"
    /\ reply.outcome = "returned"
    /\ reply.value[1].total_events > 0
    /\ reply.value[1].mbti.method = "heuristic"

\* ------------------------------------------------------------- C30
\* The values _std was applied to, in the 1e-3 units it is computed in.
C30_Values == [i \in DOMAIN reply.seen[1] |-> reply.seen[1][i] \div Milli]

\* Sum over i < j of (x_i - x_j)^2, which is n times the sum of the squared
\* deviations from the mean.
C30_PairSquares ==
    LET x == C30_Values
        n == Len(x)
    IN  SumSeq([k \in 1..(n * n) |->
                  LET i == ((k - 1) \div n) + 1
                      j == ((k - 1) % n) + 1
                  IN  IF i < j THEN (x[i] - x[j]) * (x[i] - x[j]) ELSE 0])

\* C30: the standard deviation is the sample one: 0 for n <= 1 values, and
\* for n >= 2 the square root (here to 1e-3, rounded down) of the sum of
\* squared deviations from the mean divided by n - 1.
C30_SampleStd ==
    reply.op = "_std"
    => LET n == Len(reply.seen[1])
           s == reply.value[1] \div Milli
       IN  IF n <= 1 THEN reply.value[1] = 0
           ELSE /\ s * s * n * (n - 1) <= C30_PairSquares
                /\ C30_PairSquares < (s + 1) * (s + 1) * n * (n - 1)

\* _std of three values that are not all equal.
C30_Witness ==
    /\ reply.op = "_std"
    /\ Len(reply.seen[1]) = 3
    /\ reply.value[1] > 0

\* ------------------------------------------------------------- C26
\* The axes of the classifier, in order: the statistic that drives each and
\* its low and high letters.
C26_Axes ==
    << [axis |-> "IE", metric |-> "avg_arousal", lo |-> "I", hi |-> "E"],
       [axis |-> "SN", metric |-> "v_std", lo |-> "S", hi |-> "N"],
       [axis |-> "TF", metric |-> "pos_ratio", lo |-> "T", hi |-> "F"],
       [axis |-> "JP", metric |-> "a_std", lo |-> "J", hi |-> "P"] >>

C26_Low == << cfg.ie_low, cfg.sn_low, cfg.tf_low, cfg.jp_low >>
C26_High == << cfg.ie_high, cfg.sn_high, cfg.tf_high, cfg.jp_high >>

\* The statistic the classifier was given for axis k.
C26_Value(k) == reply.seen[1][C26_Axes[k].metric]

C27_Abs(x) == IF x < 0 THEN 0 - x ELSE x

C24_ExternalCallHoldsNoLock ==
    \A t \in Threads :
       pc[t] = "external"
       => /\ conn_lock # t
          /\ \A u \in Threads \ {t} :
                /\ (pc[u] = "wait_lock" /\ \A w \in Threads \ {t} : conn_lock # w)
                   => ENABLED ReadPrev(u)
                /\ (pc[u] = "read" /\ ~UpdateRaises(prev[u]))
                   => ENABLED WriteState(u)

\* An update of the same entity holds the lock, about to commit, while the
\* other worker waits on the external service.
C24_Witness ==
    \E t \in Threads, u \in Threads :
       /\ t # u
       /\ pc[t] = "external"
       /\ pc[u] = "read"
       /\ conn_lock = u
       /\ uid[u] = uid[t]

\* ------------------------------------------------------------- C25
\* C25: under fair scheduling every call that has entered is answered (it
\* returns or raises); a worker that has answered holds no lock; no worker
\* asks for the initialisation lock while holding the update lock or the
\* other way round.
C25_NoIndefiniteSuspension ==
    /\ [](\A t \in Threads :
             /\ Free(t) => (conn_lock # t /\ ~InitLockHeld(t))
             /\ pc[t] \in {"wait_init", "a_wait_init", "initing", "a_initing"}
                => conn_lock # t
             /\ pc[t] = "wait_lock" => ~InitLockHeld(t))
    /\ \A t \in Threads : (~Free(t)) ~> Free(t)

\* Every call was made and answered, one after a failed read or write,
\* another after a commit that followed it.
C25_Witness ==
    /\ ncalls = MaxLiveCalls
    /\ \A t \in Threads : Free(t)
    /\ conn_lock = NoThread
    /\ \E t \in Threads, u \in Threads :
          /\ resp[t].outcome = "raised"
          /\ resp[u].outcome = "returned"
          /\ Len(out[u]) = 1


\* ---------------------------------------------- two entities, one store
\* Concurrent workers on a store that already holds a row and an event for
\* each of the two entities, written by earlier runs of the process.
RowOf(e) ==
    [NewRow(<< >>, e, ObsJoy, 1, CHOOSE c \in Configs : TRUE, << "joy", "trust" >>)
        EXCEPT !.username = e]

EventOf(e) == [StoredEvent EXCEPT !.userid = e, !.username = e]

InitShared ==
    /\ inited = FALSE
    /\ disk = EnsureSchema([dir |-> TRUE, events |-> {}, user_state |-> {}])
    /\ reply = NoReply
    /\ clock = 1
    /\ cfg \in {c @@ HeuristicOptions : c \in Configs}
    /\ user_state = << RowOf("e1"), RowOf("e2") >>
    /\ events = << EventOf("e1"), EventOf("e2") >>
    /\ conn_lock = NoThread
    /\ pc = [t \in Threads |-> "idle"]
    /\ uid = [t \in Threads |-> "e1"]
    /\ obs = [t \in Threads |-> ObsJoy]
    /\ now = [t \in Threads |-> 1]
    /\ prev = [t \in Threads |-> << >>]
    /\ out = [t \in Threads |-> << >>]
    /\ ret = [t \in Threads |-> << >>]
    /\ resp = [t \in Threads |-> NoResp]
    /\ ncalls = 0
    /\ OneStore
    /\ committed = [e \in Entities |-> 1]
    /\ returned = [e \in Entities |-> 1]
    /\ event_obs = << ObsJoy, ObsJoy >>

MaxSharedCalls == 2

\* Python None / SQL NULL in a username.
NullName == "NULL"

\* Request usernames, and what str.strip() makes of them.
RequestNames == {"ann", " ", ""}

Strip(name) == IF name = " " THEN "" ELSE name

\* username=(req.username or "").strip() or None
UsernameArg(name) == IF Strip(name) = "" THEN NullName ELSE Strip(name)

SharedObservations == {[ObsSad EXCEPT !.username = UsernameArg(n)] : n \in RequestNames}

\* The steps of update_user calls for either entity, with or without a
\* username, at one clock reading.
SharedStep(t) ==
    \/ \E e \in Entities, o \in SharedObservations : Call(t, e, o, MaxSharedCalls)
    \/ ReadPrev(t)
    \/ WriteState(t)
    \/ WriteStateFails(t)
    \/ AppendEvent(t)
    \/ AppendEventFails(t)

SharedNext == \E t \in Threads : SharedStep(t)

SpecShared == InitShared /\ [][SharedNext]_vars

\* ------------------------------------------------------ the store accessor
\* get_store() called by several threads of a fresh process.  The accessor
\* takes no lock: the test of the global, the construction with its
\* assignment, and the read of the global for the return are separate
\* steps of the calling thread.
MaxGetCalls == 5

InitSingleton ==
    /\ inited = FALSE
    /\ disk = NoDisk
    /\ reply = NoReply
    /\ clock = 1
    /\ cfg \in Configs
    /\ user_state = << >>
    /\ events = << >>
    /\ conn_lock = NoThread
    /\ pc = [t \in Threads |-> "idle"]
    /\ uid = [t \in Threads |-> "e1"]
    /\ obs = [t \in Threads |-> ObsJoy]
    /\ now = [t \in Threads |-> 1]
    /\ prev = [t \in Threads |-> << >>]
    /\ out = [t \in Threads |-> << >>]
    /\ ret = [t \in Threads |-> << >>]
    /\ resp = [t \in Threads |-> NoResp]
    /\ ncalls = 0
    /\ committed = [e \in Entities |-> 0]
    /\ returned = [e \in Entities |-> 0]
    /\ event_obs = << >>
    /\ store = NoStore
    /\ built = {}
    /\ got = [t \in Threads |-> NoStore]

SingletonFrame ==
    UNCHANGED << inited, disk, reply, clock, cfg, user_state, events, conn_lock,
                 uid, obs, now, prev, out, ret, resp, committed, returned,
                 event_obs >>

\* if _store is None:
GetStoreTest(t) ==
    /\ pc[t] = "idle"
    /\ ncalls < MaxGetCalls
    /\ ncalls' = ncalls + 1
    /\ pc' = [pc EXCEPT ![t] = IF store = NoStore THEN "constructing"
                               ELSE "returning"]
    /\ UNCHANGED << store, built, got >>
    /\ SingletonFrame

\* UserStore(): a new instance, with locks of its own.
NewStore(made) == Cardinality(made) + 1

\* _store = UserStore()
GetStoreConstruct(t) ==
    /\ pc[t] = "constructing"
    /\ built' = built \cup {NewStore(built)}
    /\ store' = NewStore(built)
    /\ pc' = [pc EXCEPT ![t] = "returning"]
    /\ UNCHANGED << got, ncalls >>
    /\ SingletonFrame

\* return _store
GetStoreReturn(t) ==
    /\ pc[t] = "returning"
    /\ got' = [got EXCEPT ![t] = store]
    /\ pc' = [pc EXCEPT ![t] = "idle"]
    /\ UNCHANGED << store, built, ncalls >>
    /\ SingletonFrame

SingletonNext ==
    \/ \E t \in Threads : GetStoreTest(t)
    \/ \E t \in Threads : GetStoreConstruct(t)
    \/ \E t \in Threads : GetStoreReturn(t)

SpecSingleton == InitSingleton /\ [][SingletonNext]_vars

\* ------------------------------------------------------------- C31
\* The events that match the listing request of the reply.
C31_Matching ==
    ListMatching(events, reply.userid, reply.seen[1].start, reply.seen[1].end)

\* C31: list_events returns its events in ascending timestamp order; they
\* are events of the entity inside the range, min(limit, matching) of them,
\* and the most recent ones: from any instant on, the list holds as many
\* events as match, up to its length.
C31_ChronologicalMostRecent ==
    reply.op = "list_events"
    => LET lst == reply.value
       IN  /\ \A i, j \in DOMAIN lst : i < j => lst[i].ts <= lst[j].ts
           /\ Len(lst) = Min(reply.seen[1].limit, Cardinality(C31_Matching))
           /\ \A i \in DOMAIN lst :
                 \E k \in C31_Matching : lst[i] = ListedRow(events[k])
           /\ \A x \in 1..MaxClock :
                 Cardinality({i \in DOMAIN lst : lst[i].ts >= x})
                    = Min(Len(lst),
                          Cardinality({k \in C31_Matching : events[k].ts >= x}))

\* Three events of e1 at two instants match, two are asked for: the two
\* returned are the latest, oldest first.
C31_Witness ==
    /\ reply.op = "list_events"
    /\ reply.seen[1].limit = 2
    /\ Cardinality(C31_Matching) = 3
    /\ Len(reply.value) = 2
    /\ reply.value[1].ts < reply.value[2].ts

\* ------------------------------------------------------------- C32
C32_IsPrefix(s, t) == Len(s) <= Len(t) /\ \A i \in DOMAIN s : t[i] = s[i]

\* C32: a store operation never changes or removes an event that is there:
\* the log after it starts with the log before it. An update_user that
\* returns adds exactly one event, of its entity; so does append_event;
\* every other operation, and an update_user that raises, adds none.
C32_AppendOnly ==
    [][ncalls' = ncalls + 1
       => /\ C32_IsPrefix(events, events')
          /\ IF reply'.outcome = "returned" /\ reply'.op \in {"update_user", "append_event"}
             THEN /\ Len(events') = Len(events) + 1
                  /\ events'[Len(events')].userid = reply'.userid
             ELSE events' = events]_vars

\* An update_user returned on a log that already held an event.
C32_Witness ==
    /\ reply.op = "update_user"
    /\ reply.outcome = "returned"
    /\ Len(events) >= 2
    /\ events[Len(events)].userid = reply.userid

\* ------------------------------------------------------------------ C33
\* C33: persist/read round trip.  The previous state update_user works
\* from (cur) and the state load_user builds equal, field for field, the
\* columns of the stored row they were read from, a stored score of
\* exactly 0 included.
C33_ReadBackByUpdate(p, c) ==
    /\ c.count = p.count
    /\ c.valence = p.vad_valence
    /\ c.arousal = p.vad_arousal
    /\ c.dominance = p.vad_dominance
    /\ c.baseline_valence = p.baseline_valence
    /\ c.baseline_arousal = p.baseline_arousal
    /\ c.baseline_dominance = p.baseline_dominance
    /\ c.stress = p.stress
    /\ c.emotions = ItemsOf(p.top_emotions)
    /\ c.updated_ts = p.updated_ts

C33_ReadBackByLoad(p, s) ==
    /\ s.userid = p.userid
    /\ s.username = p.username
    /\ s.count = p.count
    /\ s.vad.valence = p.vad_valence
    /\ s.vad.arousal = p.vad_arousal
    /\ s.vad.dominance = p.vad_dominance
    /\ s.stress.score = p.stress
    /\ s.stress.level = p.stress_level
    /\ s.emotions = ItemsOf(p.top_emotions)
    /\ s.updated_at = p.updated_at

C33_RoundTrip ==
    /\ (pc[1] = "responded" /\ Len(prev[1]) > 0)
          => C33_ReadBackByUpdate(prev[1][1], Cur(prev[1], now[1]))
    /\ \A i \in DOMAIN user_state :
          /\ Len(LoadUser(user_state, user_state[i].userid)) = 1
          /\ C33_ReadBackByLoad(FetchOne(user_state, user_state[i].userid)[1],
                                LoadUser(user_state, user_state[i].userid)[1])

\* ------------------------------------------------------------------ C34
\* C34: single shared store.  The threads that were handed a store by
\* get_store were all handed the same instance, and at most one UserStore
\* has been constructed.
C34_SingleSharedStore ==
    /\ Cardinality(built) <= 1
    /\ \A t, u \in Threads :
          (got[t] # NoStore /\ got[u] # NoStore) => got[t] = got[u]

\* ------------------------------------------------------------------ C35
\* The summary a query would give had it computed its event count, its
\* means, its deviations and its valence ratios over the events sel (a
\* sequence of positions in the log).
C35_Over(sel, c) ==
    LET vs == Column(events, sel, "valence")
        n == Len(vs)
    IN  [total_events |-> n,
         avg_valence |-> Avg(vs, 500000),
         avg_arousal |-> Avg(Column(events, sel, "arousal"), 500000),
         avg_dominance |-> Avg(Column(events, sel, "dominance"), 500000),
         avg_stress |-> Avg(Column(events, sel, "stress"), 300000),
         v_std |-> Std(vs),
         a_std |-> Std(Column(events, sel, "arousal")),
         d_std |-> Std(Column(events, sel, "dominance")),
         pos_ratio |-> IF n > 0
                       THEN (Cardinality({i \in DOMAIN vs : vs[i] >= c.pos_cut}) * Scale) \div n
                       ELSE 0,
         neg_ratio |-> IF n > 0
                       THEN (Cardinality({i \in DOMAIN vs : vs[i] <= c.neg_cut}) * Scale) \div n
                       ELSE 0]

C35_Figures(s) ==
    [total_events |-> s.total_events,
     avg_valence |-> s.avg_valence, avg_arousal |-> s.avg_arousal,
     avg_dominance |-> s.avg_dominance, avg_stress |-> s.avg_stress,
     v_std |-> s.v_std, a_std |-> s.a_std, d_std |-> s.d_std,
     pos_ratio |-> s.pos_ratio, neg_ratio |-> s.neg_ratio]

\* C35: the event count, the means, the deviations and the positive and
\* negative ratios of one summary are those of one and the same set of
\* events of the window, also when the window holds more events than the
\* scan maximum.
C35_OneEventSet ==
    reply.op = "get_analytics"
    => \E S \in SUBSET {reply.seen[1].order[i] : i \in DOMAIN reply.seen[1].order} :
          C35_Figures(reply.value[1])
             = C35_Over(SelectSeq(reply.seen[1].order, LAMBDA i : i \in S), cfg)

\* ------------------------------------------------------------------ C36
C36_Kept ==
    {"vad_valence", "vad_arousal", "vad_dominance",
     "baseline_valence", "baseline_arousal", "baseline_dominance",
     "stress", "stress_slow",
     "trend_valence", "trend_arousal", "trend_dominance", "stress_trend"}

\* An update has returned that found a row whose updated_ts is not before
\* the clock reading it took, under positive half-lives.
C36_ZeroElapsed ==
    /\ pc[1] = "responded"
    /\ Len(prev[1]) > 0
    /\ Len(out[1]) > 0
    /\ cfg.fast_half > 0
    /\ cfg.slow_half > 0
    /\ now[1] <= prev[1][1].updated_ts

\* C36: a zero-elapsed update with positive half-lives leaves every fast and
\* slow VAD value, both stress values and all four trends as stored, adds
\* one to the count and overwrites updated_ts with the clock reading.
C36_ZeroElapsedKeepsValues ==
    C36_ZeroElapsed
    => /\ \A f \in C36_Kept : out[1][1][f] = prev[1][1][f]
       /\ out[1][1].count = prev[1][1].count + 1
       /\ out[1][1].updated_ts = now[1]

C36_AllButSlowStress ==
    C36_ZeroElapsed
    => /\ \A f \in C36_Kept \ {"stress_slow", "stress_trend"} :
             out[1][1][f] = prev[1][1][f]
       /\ out[1][1].count = prev[1][1].count + 1
       /\ out[1][1].updated_ts = now[1]

\* ------------------------------------------------------------------ C37
\* Thread t appends the event of its update in this step.
C37_Appends(t) ==
    /\ pc[t] = "written"
    /\ pc'[t] = "responded"
    /\ Len(events') = Len(events) + 1

\* Thread u committed an update of the same entity before t did (it set
\* a smaller count) and has not appended its event yet.
C37_EarlierCommitPending(u, t) ==
    /\ u # t
    /\ pc[u] = "written"
    /\ uid[u] = uid[t]
    /\ out[u][1].count < out[t][1].count

\* C37: event order matches commit order.  An update appends its event
\* only when every update of the same entity that committed its state row
\* before it has appended its own, so that the i-th event of the entity is
\* the event of the update that set count to i.
C37_EventOrderIsCommitOrder ==
    [][\A t \in Threads :
          C37_Appends(t) => \A u \in Threads : ~C37_EarlierCommitPending(u, t)]_vars

\* ------------------------------------------------------------------ C38
\* What a store with the rows tbl and the events evs holds and answers
\* for entity b at clock reading nw: its rows, its events, and every result
\* load_user, list_events and get_analytics can give.
C38_View(b, tbl, evs, nw, c) ==
    [rows |-> SelectSeq(tbl, LAMBDA r : r.userid = b),
     events |-> SelectSeq(evs, LAMBDA ev : ev.userid = b),
     load_user |-> LoadUser(tbl, b),
     list_events |->
        {ListEvents(evs, order, limit) :
            order \in ListOrders(evs, ListMatching(evs, b, << >>, << >>)),
            limit \in ListLimits},
     get_analytics |->
        UNION {{GetAnalytics(evs, b, w, nw, c, order, "not_called") :
                   order \in ScanOrders(evs, WindowEvents(evs, b, w, nw))} :
               w \in AnalyticsWindows}]

\* A step of an update_user call made for another entity than b.
C38_OtherUpdates(b) ==
    /\ \E t \in Threads : pc'[t] # pc[t]
    /\ \A t \in Threads : pc'[t] # pc[t] => uid'[t] # b

\* C38: entity isolation.  No step of an update_user call for one entity
\* changes the row or the events of another entity, or what load_user,
\* list_events and get_analytics return for it, whatever calls are in
\* flight.
C38_EntityIsolation ==
    [][\A b \in Entities : C38_OtherUpdates(b)
          => C38_View(b, user_state', events', clock', cfg')
                = C38_View(b, user_state, events, clock, cfg)]_vars

\* An update of e1 has run to its end on the row it found, next to the row
\* and the event of e2.
C38_Witness ==
    /\ \E t \in Threads :
          /\ pc[t] = "responded"
          /\ uid[t] = "e1"
          /\ Len(prev[t]) > 0
          /\ Len(ret[t]) > 0
    /\ \E i \in DOMAIN user_state : user_state[i].userid = "e2"
    /\ \E i \in DOMAIN events : events[i].userid = "e2"
    /\ Cardinality({i \in DOMAIN events : events[i].userid = "e1"}) >= 2

\* ------------------------------------------------------------------ C39
\* C39: an update_user that carries no username, for an entity whose stored
\* row has one, leaves the stored username unchanged.
C39_NamelessKeepsUsername ==
    \A t \in Threads :
       (/\ pc[t] \in {"written", "responded"}
        /\ Len(out[t]) > 0
        /\ Len(prev[t]) > 0
        /\ obs[t].username = NullName
        /\ prev[t][1].username # NullName)
       => out[t][1].username = prev[t][1].username

====
